---- MODULE Spec2Model ----
(***************************************************************************)
(* Background service worker of the Historical Events research extension.  *)
(*                                                                         *)
(* The worker keeps its session state in chrome.storage.local (the six     *)
(* hdb_* keys) and a free-standing map lastUrlByTab.  It has three kinds   *)
(* of handlers: the chrome.tabs.onUpdated listener, handleMessage and the  *)
(* chrome.contextMenus.onClicked listener.  All are async functions: each  *)
(* runs without preemption up to its next `await`, and other handlers run  *)
(* while it is suspended.                                                  *)
(*                                                                         *)
(* A handler in flight is a record in `slots`.  A storage get/set is       *)
(* applied at the moment it is issued (chrome.storage serves requests in   *)
(* the order they are made); the code after the `await` is a later step,   *)
(* also when all it does is return the answer.                             *)
(* Values the code takes from the clock or from crypto.getRandomValues     *)
(* (entry ids of trail entries, timestamps) and display-only fields        *)
(* (title, favIconUrl) are left out of the trail entries.                  *)
(*                                                                         *)
(* The content script's frame capture (captureFramesForRange) runs in the  *)
(* page: `video` is the page's video element, `caps` the captures in       *)
(* flight, one step per awaited captureVideoFrame.  Times are in 1/100 of  *)
(* a second.  `call` holds the last call of one of the content script's   *)
(* pure functions, with its arguments and its result.                      *)
(***************************************************************************)
EXTENDS Integers, Sequences, FiniteSets, TLC

\* ---------------------------------------------------------------- bounds
MaxTrail == 2          \* trail length when handlers interleave
MaxSerialTrail == 4    \* trail length when handlers run one at a time
MaxItems == 1          \* captured items held at once
MaxIds == 2            \* capture ids handed out in one run
MaxListItems == 3      \* captured items held at once, item commands
MaxListIds == 3        \* capture ids handed out in one run, item commands
MaxListTrail == 1      \* trail length, item commands
MaxLifeTrail == 2      \* trail length, captures across the session lifecycle
MaxLifeItems == 2      \* captured items held at once, captures across the session lifecycle
MaxLifeIds == 2        \* capture ids handed out in one run, captures across the session lifecycle
MaxRaceItems == 2      \* captured items held at once, item commands in flight together
MaxRaceIds == 2        \* capture ids handed out in one run, item commands in flight together
MaxPlayed == 2         \* seconds of playback before a frame capture
MaxStartSecs == 10     \* whole seconds of a sampled range's start
MaxDurationHalves == 920   \* length of a sampled range, in half seconds
MaxHashLen == 3        \* length of the short hashes that are compared

\* ------------------------------------------------------------ input sets
Null == "null"
WebUrls == {"https://a", "https://b"}
InternalUrls == {"chrome://newtab"}
Urls == WebUrls \cup InternalUrls
Tabs == {1, 2}
Slots == {1, 2}
MsgNames == {"", "trip"}
Users == {"ann"}
Timecodes == {Null, "1:05"}
EventIds == {"EVT-1", "EVT-2"}
UnknownTypes == {"GET_SESSIONS", "START_BACK_UP"}

GeneratedName == "Session - now"

\* ------------------------------------------------------------ variables
VARIABLES
    hdb_ext_session,      \* logged-in user, or Null
    hdb_session_active,
    hdb_session_paused,
    hdb_session_name,
    hdb_current_trail,
    hdb_captured_items,
    lastUrlByTab,         \* tabId -> last url, or Null
    nextId,               \* ids handed out by generateCaptureId so far
    slots,                \* handlers in flight
    response,             \* the last response passed to sendResponse
    video,                \* the page's video element
    caps,                 \* captureFramesForRange calls in flight
    frameResponse,        \* what the last captureFramesForRange returned
    call                  \* the last call of a pure function

storage == <<hdb_ext_session, hdb_session_active, hdb_session_paused,
             hdb_session_name, hdb_current_trail, hdb_captured_items>>
session_keys == <<hdb_session_active, hdb_session_paused, hdb_session_name>>
vars == <<hdb_ext_session, hdb_session_active, hdb_session_paused,
          hdb_session_name, hdb_current_trail, hdb_captured_items,
          lastUrlByTab, nextId, slots, response,
          video, caps, frameResponse, call>>
worker == <<hdb_ext_session, hdb_session_active, hdb_session_paused,
            hdb_session_name, hdb_current_trail, hdb_captured_items,
            lastUrlByTab, nextId, slots, response>>
page == <<video, caps, frameResponse, call>>

\* ------------------------------------------------------------- helpers
EmptyTabMap == [t \in Tabs |-> Null]

generateSessionName == GeneratedName

PageEntry(url, fromUrl) == [type |-> "page", url |-> url, fromUrl |-> fromUrl]
pauseMarker == [type |-> "pause", url |-> Null, fromUrl |-> Null]
resumeMarker == [type |-> "resume", url |-> Null, fromUrl |-> Null]

IsInternal(url) == url \in InternalUrls

Idle == [op |-> "idle", pc |-> "idle", tab |-> 0, url |-> Null, name |-> "",
         text |-> "",
         id |-> 0, timecode |-> Null, user |-> Null, valid |-> FALSE,
         fromUrl |-> Null, sActive |-> FALSE, sPaused |-> FALSE,
         sTrail |-> <<>>, sItems |-> <<>>, sSess |-> Null, sName |-> "",
         rec |-> <<>>, timecodeEnd |-> Null, frames |-> <<>>,
         eventId |-> Null, menuItemId |-> ""]

NoResponse == [op |-> "none", ok |-> FALSE, error |-> "", name |-> "",
               user |-> Null, savedSession |-> <<>>, item |-> <<>>,
               eventId |-> Null, event |-> <<>>, state |-> <<>>]

Ok(op) == [NoResponse EXCEPT !.op = op, !.ok = TRUE]
Err(op, message) == [NoResponse EXCEPT !.op = op, !.error = message]

AllIdle == \A h \in Slots : slots[h].pc = "idle"

\* The page: no video element yet; no capture running; nothing returned.
Captures == {1, 2}
NoVideo == [present |-> FALSE, currentTime |-> 0, paused |-> TRUE]
NoCapture == [pc |-> "idle", stamps |-> <<>>, i |-> 0, frames |-> <<>>,
              lastHash |-> <<>>, origTime |-> 0, wasPaused |-> TRUE,
              attempts |-> <<>>]
NoFrames == [done |-> FALSE, frames |-> <<>>, attempts |-> <<>>]
NoCall == [fn |-> "none", args |-> <<>>, result |-> <<>>]

\* Handlers in flight that are at one of the positions pcs.
Pending(pcs) == Cardinality({h \in Slots : slots[h].pc \in pcs})

Init ==
    /\ hdb_ext_session = Null
    /\ hdb_session_active = FALSE
    /\ hdb_session_paused = FALSE
    /\ hdb_session_name = ""
    /\ hdb_current_trail = <<>>
    /\ hdb_captured_items = <<>>
    /\ lastUrlByTab = EmptyTabMap
    /\ nextId = 0
    /\ slots = [h \in Slots |-> Idle]
    /\ response = NoResponse
    /\ video = NoVideo
    /\ caps = [c \in Captures |-> NoCapture]
    /\ frameResponse = NoFrames
    /\ call = NoCall

\* The browser starts a handler in the first free slot.
Free(h) ==
    /\ slots[h].pc = "idle"
    /\ \A g \in Slots : g < h => slots[g].pc # "idle"

\* Room for one more trail entry (bound of the model, not of the code).
TrailRoom(max) ==
    Len(hdb_current_trail)
        + Pending({"nav_flags", "nav_trail", "pause_read", "resume_read"}) < max

\* A step that passes nothing to sendResponse.
Silent == response' = NoResponse /\ UNCHANGED page

\* A handler leaves the slot; r is what sendResponse gets.
Finish(h, r) ==
    /\ slots' = [slots EXCEPT ![h] = Idle]
    /\ response' = r
    /\ UNCHANGED page

\* ------------------------------------------- chrome.tabs.onUpdated listener
\* lines 76-79: a 'complete' event with a url arrives (other events return at
\* line 76 and are not drawn); internal pages are dropped, otherwise the
\* session flags are read.
NavStart(h, tabId, url, max) ==
    /\ Free(h) /\ TrailRoom(max)
    /\ IF IsInternal(url)
       THEN UNCHANGED slots
       ELSE slots' = [slots EXCEPT ![h] =
                [Idle EXCEPT !.op = "NAV", !.pc = "nav_flags",
                             !.tab = tabId, !.url = url,
                             !.sActive = hdb_session_active,
                             !.sPaused = hdb_session_paused]]
    /\ Silent
    /\ UNCHANGED <<storage, lastUrlByTab, nextId>>

NavFlags_remembersFirst(h) ==
    /\ slots[h].op = "NAV" /\ slots[h].pc = "nav_flags"
    /\ lastUrlByTab' = [lastUrlByTab EXCEPT ![slots[h].tab] = slots[h].url]
    /\ IF ~slots[h].sActive \/ slots[h].sPaused
       THEN slots' = [slots EXCEPT ![h] = Idle]
       ELSE slots' = [slots EXCEPT ![h].pc = "nav_trail",
                                   ![h].fromUrl = lastUrlByTab[slots[h].tab],
                                   ![h].sTrail = hdb_current_trail]
    /\ Silent
    /\ UNCHANGED <<storage, nextId>>

NavFlags_sharedMemory(h) ==
    /\ slots[h].op = "NAV" /\ slots[h].pc = "nav_flags"
    /\ IF ~slots[h].sActive \/ slots[h].sPaused
       THEN /\ slots' = [slots EXCEPT ![h] = Idle]
            /\ UNCHANGED lastUrlByTab
       ELSE /\ lastUrlByTab' = [t \in Tabs |-> slots[h].url]
            /\ slots' = [slots EXCEPT ![h].pc = "nav_trail",
                                      ![h].fromUrl = lastUrlByTab[slots[h].tab],
                                      ![h].sTrail = hdb_current_trail]
    /\ Silent
    /\ UNCHANGED <<storage, nextId>>

\* lines 80-85
NavFlags(h) ==
    /\ slots[h].op = "NAV" /\ slots[h].pc = "nav_flags"
    /\ IF ~slots[h].sActive \/ slots[h].sPaused
       THEN /\ slots' = [slots EXCEPT ![h] = Idle]
            /\ UNCHANGED lastUrlByTab
       ELSE /\ lastUrlByTab' = [lastUrlByTab EXCEPT ![slots[h].tab] = slots[h].url]
            /\ slots' = [slots EXCEPT ![h].pc = "nav_trail",
                                      ![h].fromUrl = lastUrlByTab[slots[h].tab],
                                      ![h].sTrail = hdb_current_trail]
    /\ Silent
    /\ UNCHANGED <<storage, nextId>>

IsBackToBack_never(trail, url) == FALSE

IsBackToBack(trail, url) ==
    /\ Len(trail) > 0
    /\ trail[Len(trail)].url = url

NavTrail_perViewport(h) ==
    /\ slots[h].op = "NAV" /\ slots[h].pc = "nav_trail"
    /\ IF slots[h].fromUrl = slots[h].url
       THEN UNCHANGED hdb_current_trail
       ELSE hdb_current_trail' =
                Append(slots[h].sTrail, PageEntry(slots[h].url, slots[h].fromUrl))
    /\ slots' = [slots EXCEPT ![h] = Idle]
    /\ Silent
    /\ UNCHANGED <<hdb_ext_session, session_keys, hdb_captured_items,
                   lastUrlByTab, nextId>>

\* lines 88-100
NavTrail(h) ==
    /\ slots[h].op = "NAV" /\ slots[h].pc = "nav_trail"
    /\ IF IsBackToBack(slots[h].sTrail, slots[h].url)
       THEN UNCHANGED hdb_current_trail
       ELSE hdb_current_trail' =
                Append(slots[h].sTrail, PageEntry(slots[h].url, slots[h].fromUrl))
    /\ slots' = [slots EXCEPT ![h] = Idle]
    /\ Silent
    /\ UNCHANGED <<hdb_ext_session, session_keys, hdb_captured_items,
                   lastUrlByTab, nextId>>

\* ------------------------------------------------------------ handleMessage
\* LOGIN: loginUser is awaited, then the user is stored.
LoginStart(h, username, valid) ==
    /\ Free(h)
    /\ slots' = [slots EXCEPT ![h] =
           [Idle EXCEPT !.op = "LOGIN", !.pc = "login_fetch",
                        !.user = username, !.valid = valid]]
    /\ Silent
    /\ UNCHANGED <<storage, lastUrlByTab, nextId>>

\* lines 220-221: loginUser resolves with the user, or throws: the remote
\* store fails (sbFetch, lines 20-24) or no row matches (line 35).
LoginFetched(h, remoteOk) ==
    /\ slots[h].op = "LOGIN" /\ slots[h].pc = "login_fetch"
    /\ IF ~remoteOk
       THEN /\ Finish(h, Err("LOGIN", "Supabase error"))
            /\ UNCHANGED hdb_ext_session
       ELSE IF ~slots[h].valid
       THEN /\ Finish(h, Err("LOGIN", "Invalid credentials"))
            /\ UNCHANGED hdb_ext_session
       ELSE /\ hdb_ext_session' = slots[h].user
            /\ slots' = [slots EXCEPT ![h].pc = "login_set"]
            /\ Silent
    /\ UNCHANGED <<session_keys, hdb_current_trail, hdb_captured_items,
                   lastUrlByTab, nextId>>

\* line 222
LoginDone(h) ==
    /\ slots[h].op = "LOGIN" /\ slots[h].pc = "login_set"
    /\ Finish(h, [Ok("LOGIN") EXCEPT !.user = slots[h].user])
    /\ UNCHANGED <<storage, lastUrlByTab, nextId>>

LogoutStart_keepsItems(h) ==
    /\ Free(h)
    /\ hdb_ext_session' = Null
    /\ hdb_session_active' = FALSE
    /\ hdb_session_paused' = FALSE
    /\ hdb_session_name' = ""
    /\ hdb_current_trail' = <<>>
    /\ slots' = [slots EXCEPT ![h] =
           [Idle EXCEPT !.op = "LOGOUT", !.pc = "logout_set"]]
    /\ Silent
    /\ UNCHANGED <<hdb_captured_items, lastUrlByTab, nextId>>

\* LOGOUT, lines 226-233: the write of the six keys
LogoutStart(h) ==
    /\ Free(h)
    /\ hdb_ext_session' = Null
    /\ hdb_session_active' = FALSE
    /\ hdb_session_paused' = FALSE
    /\ hdb_session_name' = ""
    /\ hdb_current_trail' = <<>>
    /\ hdb_captured_items' = <<>>
    /\ slots' = [slots EXCEPT ![h] =
           [Idle EXCEPT !.op = "LOGOUT", !.pc = "logout_set"]]
    /\ Silent
    /\ UNCHANGED <<lastUrlByTab, nextId>>

LogoutDone(h) ==
    /\ slots[h].op = "LOGOUT" /\ slots[h].pc = "logout_set"
    /\ lastUrlByTab' = EmptyTabMap
    /\ Finish(h, Ok("LOGOUT"))
    /\ UNCHANGED <<storage, nextId>>

SessionNameFor_asGiven(msgName) == msgName

SessionNameFor(msgName) == IF msgName # "" THEN msgName ELSE generateSessionName

StartStart_refusedWhenActive(h, msgName) ==
    /\ Free(h)
    /\ IF hdb_session_active
       THEN /\ Finish(h, Err("START_SESSION", "Session already active"))
            /\ UNCHANGED <<session_keys, hdb_current_trail, hdb_captured_items>>
       ELSE /\ hdb_session_active' = TRUE
            /\ hdb_session_paused' = FALSE
            /\ hdb_session_name' = SessionNameFor(msgName)
            /\ hdb_current_trail' = <<>>
            /\ hdb_captured_items' = <<>>
            /\ slots' = [slots EXCEPT ![h] =
                   [Idle EXCEPT !.op = "START_SESSION", !.pc = "start_set",
                                !.name = msgName,
                                !.sName = SessionNameFor(msgName)]]
            /\ Silent
    /\ UNCHANGED <<hdb_ext_session, lastUrlByTab, nextId>>

\* START_SESSION, lines 239-248
StartStart(h, msgName) ==
    /\ Free(h)
    /\ hdb_session_active' = TRUE
    /\ hdb_session_paused' = FALSE
    /\ hdb_session_name' = SessionNameFor(msgName)
    /\ hdb_current_trail' = <<>>
    /\ hdb_captured_items' = <<>>
    /\ slots' = [slots EXCEPT ![h] =
           [Idle EXCEPT !.op = "START_SESSION", !.pc = "start_set",
                        !.name = msgName,
                        !.sName = SessionNameFor(msgName)]]
    /\ Silent
    /\ UNCHANGED <<hdb_ext_session, lastUrlByTab, nextId>>

StartDone(h) ==
    /\ slots[h].op = "START_SESSION" /\ slots[h].pc = "start_set"
    /\ lastUrlByTab' = EmptyTabMap
    /\ Finish(h, [Ok("START_SESSION") EXCEPT !.name = slots[h].sName])
    /\ UNCHANGED <<storage, nextId>>

\* PAUSE_SESSION, line 365
PauseStart(h, max) ==
    /\ Free(h) /\ TrailRoom(max)
    /\ slots' = [slots EXCEPT ![h] =
           [Idle EXCEPT !.op = "PAUSE_SESSION", !.pc = "pause_read",
                        !.sActive = hdb_session_active,
                        !.sTrail = hdb_current_trail]]
    /\ Silent
    /\ UNCHANGED <<storage, lastUrlByTab, nextId>>

PauseRead_unchecked(h) ==
    /\ slots[h].op = "PAUSE_SESSION" /\ slots[h].pc = "pause_read"
    /\ hdb_session_paused' = TRUE
    /\ hdb_current_trail' = Append(slots[h].sTrail, pauseMarker)
    /\ slots' = [slots EXCEPT ![h].pc = "pause_set"]
    /\ Silent
    /\ UNCHANGED <<hdb_ext_session, hdb_session_active, hdb_session_name,
                   hdb_captured_items, lastUrlByTab, nextId>>

\* lines 366-375
PauseRead(h) ==
    /\ slots[h].op = "PAUSE_SESSION" /\ slots[h].pc = "pause_read"
    /\ IF ~slots[h].sActive
       THEN /\ Finish(h, Err("PAUSE_SESSION", "No active session to pause"))
            /\ UNCHANGED <<hdb_session_paused, hdb_current_trail>>
       ELSE /\ hdb_session_paused' = TRUE
            /\ hdb_current_trail' = Append(slots[h].sTrail, pauseMarker)
            /\ slots' = [slots EXCEPT ![h].pc = "pause_set"]
            /\ Silent
    /\ UNCHANGED <<hdb_ext_session, hdb_session_active, hdb_session_name,
                   hdb_captured_items, lastUrlByTab, nextId>>

\* line 376
PauseDone(h) ==
    /\ slots[h].op = "PAUSE_SESSION" /\ slots[h].pc = "pause_set"
    /\ Finish(h, Ok("PAUSE_SESSION"))
    /\ UNCHANGED <<storage, lastUrlByTab, nextId>>

\* RESUME_SESSION, lines 380-391
ResumeStart(h, max) ==
    /\ Free(h) /\ TrailRoom(max)
    /\ slots' = [slots EXCEPT ![h] =
           [Idle EXCEPT !.op = "RESUME_SESSION", !.pc = "resume_read",
                        !.sTrail = hdb_current_trail]]
    /\ Silent
    /\ UNCHANGED <<storage, lastUrlByTab, nextId>>

ResumeRead_checked(h) ==
    /\ slots[h].op = "RESUME_SESSION" /\ slots[h].pc = "resume_read"
    /\ IF ~hdb_session_paused
       THEN /\ Finish(h, Err("RESUME_SESSION", "No paused session to resume"))
            /\ UNCHANGED <<hdb_session_paused, hdb_current_trail>>
       ELSE /\ hdb_session_paused' = FALSE
            /\ hdb_current_trail' = Append(slots[h].sTrail, resumeMarker)
            /\ slots' = [slots EXCEPT ![h] = [Idle EXCEPT !.op = "RESUME_SESSION",
                                                          !.pc = "resume_set"]]
            /\ Silent
    /\ UNCHANGED <<hdb_ext_session, hdb_session_active, hdb_session_name,
                   hdb_captured_items, lastUrlByTab, nextId>>

ResumeRead(h) ==
    /\ slots[h].op = "RESUME_SESSION" /\ slots[h].pc = "resume_read"
    /\ hdb_session_paused' = FALSE
    /\ hdb_current_trail' = Append(slots[h].sTrail, resumeMarker)
    /\ slots' = [slots EXCEPT ![h] = [Idle EXCEPT !.op = "RESUME_SESSION",
                                                  !.pc = "resume_set"]]
    /\ Silent
    /\ UNCHANGED <<hdb_ext_session, hdb_session_active, hdb_session_name,
                   hdb_captured_items, lastUrlByTab, nextId>>

ResumeDone_keepsMemory(h) ==
    /\ slots[h].op = "RESUME_SESSION" /\ slots[h].pc = "resume_set"
    /\ Finish(h, Ok("RESUME_SESSION"))
    /\ UNCHANGED <<storage, lastUrlByTab, nextId>>

ResumeDone(h) ==
    /\ slots[h].op = "RESUME_SESSION" /\ slots[h].pc = "resume_set"
    /\ lastUrlByTab' = EmptyTabMap
    /\ Finish(h, Ok("RESUME_SESSION"))
    /\ UNCHANGED <<storage, nextId>>

\* CLEAR_TRAIL, lines 395-397
ClearStart(h) ==
    /\ Free(h)
    /\ hdb_current_trail' = <<>>
    /\ slots' = [slots EXCEPT ![h] =
           [Idle EXCEPT !.op = "CLEAR_TRAIL", !.pc = "clear_set"]]
    /\ Silent
    /\ UNCHANGED <<hdb_ext_session, session_keys, hdb_captured_items,
                   lastUrlByTab, nextId>>

ClearDone_keepsMemory(h) ==
    /\ slots[h].op = "CLEAR_TRAIL" /\ slots[h].pc = "clear_set"
    /\ Finish(h, Ok("CLEAR_TRAIL"))
    /\ UNCHANGED <<storage, lastUrlByTab, nextId>>

ClearDone(h) ==
    /\ slots[h].op = "CLEAR_TRAIL" /\ slots[h].pc = "clear_set"
    /\ lastUrlByTab' = EmptyTabMap
    /\ Finish(h, Ok("CLEAR_TRAIL"))
    /\ UNCHANGED <<storage, nextId>>

\* END_SESSION, lines 257-294
sessionRecord(name, username, trail, items) ==
    [session_name |-> IF name # "" THEN name ELSE generateSessionName,
     uploaded_by |-> username,
     trail |-> trail,
     captured_items |-> items]

\* line 257
EndStart(h) ==
    /\ Free(h)
    /\ slots' = [slots EXCEPT ![h] =
           [Idle EXCEPT !.op = "END_SESSION", !.pc = "end_auth",
                        !.sSess = hdb_ext_session]]
    /\ Silent
    /\ UNCHANGED <<storage, lastUrlByTab, nextId>>

EndAuth_unchecked(h) ==
    /\ slots[h].op = "END_SESSION" /\ slots[h].pc = "end_auth"
    /\ slots' = [slots EXCEPT ![h].pc = "end_read",
                              ![h].sTrail = hdb_current_trail,
                              ![h].sItems = hdb_captured_items,
                              ![h].sName = hdb_session_name]
    /\ Silent
    /\ UNCHANGED <<storage, lastUrlByTab, nextId>>

\* lines 258-262
EndAuth(h) ==
    /\ slots[h].op = "END_SESSION" /\ slots[h].pc = "end_auth"
    /\ IF slots[h].sSess = Null
       THEN Finish(h, Err("END_SESSION", "Not logged in"))
       ELSE /\ slots' = [slots EXCEPT ![h].pc = "end_read",
                                      ![h].sTrail = hdb_current_trail,
                                      ![h].sItems = hdb_captured_items,
                                      ![h].sName = hdb_session_name]
            /\ Silent
    /\ UNCHANGED <<storage, lastUrlByTab, nextId>>

\* lines 265-280: the record is built and posted to the remote store.
EndRead(h) ==
    /\ slots[h].op = "END_SESSION" /\ slots[h].pc = "end_read"
    /\ slots' = [slots EXCEPT ![h] =
           [Idle EXCEPT !.op = "END_SESSION", !.pc = "end_fetch",
                        !.rec = <<sessionRecord(slots[h].sName, slots[h].sSess,
                                                slots[h].sTrail, slots[h].sItems)>>]]
    /\ Silent
    /\ UNCHANGED <<storage, lastUrlByTab, nextId>>

EndFetched_uncaught(h, remoteOk) ==
    /\ slots[h].op = "END_SESSION" /\ slots[h].pc = "end_fetch"
    /\ IF remoteOk
       THEN /\ hdb_session_active' = FALSE
            /\ hdb_session_paused' = FALSE
            /\ hdb_session_name' = ""
            /\ hdb_current_trail' = <<>>
            /\ hdb_captured_items' = <<>>
            /\ slots' = [slots EXCEPT ![h].pc = "end_set", ![h].valid = TRUE]
            /\ Silent
       ELSE /\ Finish(h, Err("END_SESSION", "Supabase error"))
            /\ UNCHANGED <<session_keys, hdb_current_trail, hdb_captured_items>>
    /\ UNCHANGED <<hdb_ext_session, lastUrlByTab, nextId>>

\* lines 274-291: the remote store answers (remoteOk) or the post throws.
EndFetched(h, remoteOk) ==
    /\ slots[h].op = "END_SESSION" /\ slots[h].pc = "end_fetch"
    /\ hdb_session_active' = FALSE
    /\ hdb_session_paused' = FALSE
    /\ hdb_session_name' = ""
    /\ hdb_current_trail' = <<>>
    /\ hdb_captured_items' = <<>>
    /\ slots' = [slots EXCEPT ![h].pc = "end_set",
                              ![h].valid = remoteOk,
                              ![h].rec = IF remoteOk THEN slots[h].rec ELSE <<>>]
    /\ Silent
    /\ UNCHANGED <<hdb_ext_session, lastUrlByTab, nextId>>

\* lines 292-294
EndDone(h) ==
    /\ slots[h].op = "END_SESSION" /\ slots[h].pc = "end_set"
    /\ lastUrlByTab' = EmptyTabMap
    /\ Finish(h, [Ok("END_SESSION") EXCEPT !.savedSession = slots[h].rec])
    /\ UNCHANGED <<storage, nextId>>

\* RENAME_SESSION, line 252
RenameStart(h, msgName) ==
    /\ Free(h)
    /\ hdb_session_name' = msgName
    /\ slots' = [slots EXCEPT ![h] =
           [Idle EXCEPT !.op = "RENAME_SESSION", !.pc = "rename_set",
                        !.name = msgName]]
    /\ Silent
    /\ UNCHANGED <<hdb_ext_session, hdb_session_active, hdb_session_paused,
                   hdb_current_trail, hdb_captured_items, lastUrlByTab, nextId>>

\* line 253
RenameDone(h) ==
    /\ slots[h].op = "RENAME_SESSION" /\ slots[h].pc = "rename_set"
    /\ Finish(h, Ok("RENAME_SESSION"))
    /\ UNCHANGED <<storage, lastUrlByTab, nextId>>

\* CAPTURE_TEXT and CAPTURE_URL, lines 298-330
textItem(id, text, url, pageTitle, timecode) ==
    [id |-> id,
     type |-> IF timecode # Null THEN "video" ELSE "text",
     text |-> text, url |-> url, pageTitle |-> pageTitle,
     timecode |-> timecode, saved |-> FALSE, savedEventId |-> Null]

urlItem(id, url, pageTitle) ==
    [id |-> id,
     type |-> "url",
     text |-> IF pageTitle # "" THEN pageTitle ELSE url,
     url |-> url, pageTitle |-> pageTitle,
     timecode |-> Null, saved |-> FALSE, savedEventId |-> Null]

\* Room for one more captured item (bound of the model, not of the code).
ItemRoom(maxItems, maxIds) ==
    /\ Len(hdb_captured_items) + Pending({"capture_read", "menu_session"}) < maxItems
    /\ nextId + Pending({"capture_read", "menu_session"}) < maxIds

\* lines 298 and 316
CaptureStart(h, op, text, url, pageTitle, timecode) ==
    /\ Free(h)
    /\ slots' = [slots EXCEPT ![h] =
           [Idle EXCEPT !.op = op, !.pc = "capture_read",
                        !.text = text, !.url = url, !.name = pageTitle,
                        !.timecode = timecode,
                        !.sItems = hdb_captured_items]]
    /\ Silent
    /\ UNCHANGED <<storage, lastUrlByTab, nextId>>

\* The type of the message handleMessage was called with: the message's own,
\* or the one the context-menu listener builds (lines 429, 437).
MsgType(h) ==
    IF slots[h].op # "MENU" THEN slots[h].op
    ELSE IF slots[h].menuItemId = "hdb-save-selection" THEN "CAPTURE_TEXT"
    ELSE "CAPTURE_URL"

NewItem(h, id) ==
    IF MsgType(h) = "CAPTURE_TEXT"
    THEN textItem(id, slots[h].text, slots[h].url, slots[h].name, slots[h].timecode)
    ELSE urlItem(id, slots[h].url, slots[h].name)

CaptureRead_needsSession(h) ==
    /\ slots[h].pc = "capture_read"
    /\ IF ~hdb_session_active \/ hdb_session_paused
       THEN /\ Finish(h, Err(slots[h].op, "No active session"))
            /\ UNCHANGED <<nextId, hdb_captured_items>>
       ELSE /\ nextId' = nextId + 1
            /\ hdb_captured_items' = Append(slots[h].sItems, NewItem(h, nextId + 1))
            /\ slots' = [slots EXCEPT ![h].pc = "capture_set",
                                      ![h].rec = <<NewItem(h, nextId + 1)>>]
            /\ Silent
    /\ UNCHANGED <<hdb_ext_session, session_keys, hdb_current_trail, lastUrlByTab>>

\* lines 299-311 and 317-329: the item is built and the list is written
CaptureRead(h) ==
    /\ slots[h].pc = "capture_read"
    /\ nextId' = nextId + 1
    /\ hdb_captured_items' = Append(slots[h].sItems, NewItem(h, nextId + 1))
    /\ slots' = [slots EXCEPT ![h].pc = "capture_set",
                              ![h].rec = <<NewItem(h, nextId + 1)>>]
    /\ Silent
    /\ UNCHANGED <<hdb_ext_session, session_keys, hdb_current_trail, lastUrlByTab>>

\* lines 312 and 330: handleMessage returns the item; the message listener
\* passes it to sendResponse (line 188), the context-menu listener drops it
\* (lines 428, 436).
CaptureDone(h) ==
    /\ slots[h].pc = "capture_set"
    /\ IF slots[h].op = "MENU"
       THEN slots' = [slots EXCEPT ![h] = Idle] /\ Silent
       ELSE Finish(h, [Ok(slots[h].op) EXCEPT !.item = slots[h].rec])
    /\ UNCHANGED <<storage, lastUrlByTab, nextId>>

\* chrome.contextMenus.onClicked, line 420: the listener reads the user.
MenuStart(h, menuItemId, selectionText, url, pageTitle) ==
    /\ Free(h)
    /\ slots' = [slots EXCEPT ![h] =
           [Idle EXCEPT !.op = "MENU", !.pc = "menu_session",
                        !.menuItemId = menuItemId,
                        !.text = selectionText, !.url = url, !.name = pageTitle,
                        !.sSess = hdb_ext_session]]
    /\ Silent
    /\ UNCHANGED <<storage, lastUrlByTab, nextId>>

\* lines 421-443: without a user the popup is opened and nothing is stored;
\* with one, handleMessage is called and runs up to its read of the list.
MenuSession(h) ==
    /\ slots[h].op = "MENU" /\ slots[h].pc = "menu_session"
    /\ IF /\ slots[h].sSess # Null
          /\ \/ slots[h].menuItemId = "hdb-save-selection" /\ slots[h].text # ""
             \/ slots[h].menuItemId = "hdb-save-page"
       THEN slots' = [slots EXCEPT ![h].pc = "capture_read",
                                   ![h].sItems = hdb_captured_items]
       ELSE slots' = [slots EXCEPT ![h] = Idle]
    /\ Silent
    /\ UNCHANGED <<storage, lastUrlByTab, nextId>>

\* CAPTURE_TEXT as the video range capture sends it (popup.js 730-739,
\* content.js 271-280): with the end timecode and the captured frames.
CaptureVideoStart(h, text, url, pageTitle, timecode, timecodeEnd, frames) ==
    /\ Free(h)
    /\ slots' = [slots EXCEPT ![h] =
           [Idle EXCEPT !.op = "CAPTURE_TEXT", !.pc = "capture_read",
                        !.text = text, !.url = url, !.name = pageTitle,
                        !.timecode = timecode,
                        !.timecodeEnd = timecodeEnd, !.frames = frames,
                        !.sItems = hdb_captured_items]]
    /\ Silent
    /\ UNCHANGED <<storage, lastUrlByTab, nextId>>

\* DELETE_CAPTURED, line 334
DeleteStart(h, id) ==
    /\ Free(h)
    /\ slots' = [slots EXCEPT ![h] =
           [Idle EXCEPT !.op = "DELETE_CAPTURED", !.pc = "delete_read",
                        !.id = id, !.sItems = hdb_captured_items]]
    /\ Silent
    /\ UNCHANGED <<storage, lastUrlByTab, nextId>>

FirstWithId(items, id) ==
    IF \E k \in 1..Len(items) : items[k].id = id
    THEN CHOOSE k \in 1..Len(items) :
             /\ items[k].id = id
             /\ \A j \in 1..(k - 1) : items[j].id # id
    ELSE 0

withoutId_dropsTail(items, id) ==
    IF FirstWithId(items, id) = 0 THEN items
    ELSE SubSeq(items, 1, FirstWithId(items, id) - 1)

\* line 335
withoutId(items, id) == SelectSeq(items, LAMBDA i : i.id # id)

\* lines 335-336
DeleteRead(h) ==
    /\ slots[h].op = "DELETE_CAPTURED" /\ slots[h].pc = "delete_read"
    /\ hdb_captured_items' = withoutId(slots[h].sItems, slots[h].id)
    /\ slots' = [slots EXCEPT ![h].pc = "delete_set"]
    /\ Silent
    /\ UNCHANGED <<hdb_ext_session, session_keys, hdb_current_trail,
                   lastUrlByTab, nextId>>

\* line 337
DeleteDone(h) ==
    /\ slots[h].op = "DELETE_CAPTURED" /\ slots[h].pc = "delete_set"
    /\ Finish(h, Ok("DELETE_CAPTURED"))
    /\ UNCHANGED <<storage, lastUrlByTab, nextId>>

\* SAVE_TO_DB, line 341
SaveStart(h, id) ==
    /\ Free(h)
    /\ slots' = [slots EXCEPT ![h] =
           [Idle EXCEPT !.op = "SAVE_TO_DB", !.pc = "save_auth",
                        !.id = id, !.sSess = hdb_ext_session]]
    /\ Silent
    /\ UNCHANGED <<storage, lastUrlByTab, nextId>>

SaveAuth_unchecked(h) ==
    /\ slots[h].op = "SAVE_TO_DB" /\ slots[h].pc = "save_auth"
    /\ slots' = [slots EXCEPT ![h].pc = "save_read",
                              ![h].sItems = hdb_captured_items]
    /\ Silent
    /\ UNCHANGED <<storage, lastUrlByTab, nextId>>

\* lines 342-344
SaveAuth(h) ==
    /\ slots[h].op = "SAVE_TO_DB" /\ slots[h].pc = "save_auth"
    /\ IF slots[h].sSess = Null
       THEN Finish(h, Err("SAVE_TO_DB", "Not logged in"))
       ELSE /\ slots' = [slots EXCEPT ![h].pc = "save_read",
                                      ![h].sItems = hdb_captured_items]
            /\ Silent
    /\ UNCHANGED <<storage, lastUrlByTab, nextId>>

\* line 345: the found item, or nothing
findCaptured(items, id) ==
    IF FirstWithId(items, id) = 0 THEN <<>>
    ELSE <<items[FirstWithId(items, id)]>>

\* lines 104-156, the fields that depend on the captured item; eventId is
\* the value generateEventId draws.
buildEventObject(captured, eventId, username) ==
    [id |-> eventId,
     description |-> captured.text,
     source |-> captured.pageTitle,
     main_link |-> captured.url,
     uploaded_by |-> username,
     transcription |-> captured.timecode]

\* lines 345-351: the lookup, then the event is built and posted.
SaveRead(h, eventId) ==
    /\ slots[h].op = "SAVE_TO_DB" /\ slots[h].pc = "save_read"
    /\ IF findCaptured(slots[h].sItems, slots[h].id) = <<>>
       THEN Finish(h, Err("SAVE_TO_DB", "Capture item not found"))
       ELSE /\ slots' = [slots EXCEPT
                   ![h].pc = "save_fetch",
                   ![h].eventId = eventId,
                   ![h].rec = <<buildEventObject(
                                   findCaptured(slots[h].sItems, slots[h].id)[1],
                                   eventId, slots[h].sSess)>>]
            /\ Silent
    /\ UNCHANGED <<storage, lastUrlByTab, nextId>>

markSaved_all(items, id, eventId) ==
    [k \in 1..Len(items) |->
        [items[k] EXCEPT !.saved = TRUE, !.savedEventId = eventId]]

\* lines 354-358
markSaved(items, id, eventId) ==
    [k \in 1..Len(items) |->
        IF items[k].id = id
        THEN [items[k] EXCEPT !.saved = TRUE, !.savedEventId = eventId]
        ELSE items[k]]

\* lines 351-359: the remote store answers (remoteOk) or the post throws.
SaveFetched(h, remoteOk) ==
    /\ slots[h].op = "SAVE_TO_DB" /\ slots[h].pc = "save_fetch"
    /\ IF remoteOk
       THEN /\ hdb_captured_items' =
                   markSaved(slots[h].sItems, slots[h].id, slots[h].eventId)
            /\ slots' = [slots EXCEPT ![h].pc = "save_set"]
            /\ Silent
       ELSE /\ Finish(h, Err("SAVE_TO_DB", "Supabase error"))
            /\ UNCHANGED hdb_captured_items
    /\ UNCHANGED <<hdb_ext_session, session_keys, hdb_current_trail,
                   lastUrlByTab, nextId>>

\* line 361
SaveDone(h) ==
    /\ slots[h].op = "SAVE_TO_DB" /\ slots[h].pc = "save_set"
    /\ Finish(h, [Ok("SAVE_TO_DB") EXCEPT !.eventId = slots[h].eventId,
                                          !.event = slots[h].rec])
    /\ UNCHANGED <<storage, lastUrlByTab, nextId>>

\* GET_STATE, lines 200-207
GetStateStart(h) ==
    /\ Free(h)
    /\ slots' = [slots EXCEPT ![h] =
           [Idle EXCEPT !.op = "GET_STATE", !.pc = "state_read",
                        !.sSess = hdb_ext_session,
                        !.sTrail = hdb_current_trail,
                        !.sItems = hdb_captured_items,
                        !.sActive = hdb_session_active,
                        !.sName = hdb_session_name,
                        !.sPaused = hdb_session_paused]]
    /\ Silent
    /\ UNCHANGED <<storage, lastUrlByTab, nextId>>

\* lines 208-215 (the answer carries the state and no `ok`)
GetStateDone(h) ==
    /\ slots[h].op = "GET_STATE" /\ slots[h].pc = "state_read"
    /\ Finish(h, [NoResponse EXCEPT !.op = "GET_STATE", !.state =
                    <<[session |-> slots[h].sSess,
                       trail |-> slots[h].sTrail,
                       capturedItems |-> slots[h].sItems,
                       sessionActive |-> slots[h].sActive,
                       sessionName |-> slots[h].sName,
                       sessionPaused |-> slots[h].sPaused]>>])
    /\ UNCHANGED <<storage, lastUrlByTab, nextId>>

UnknownMessage_accepted(h, type) ==
    /\ Free(h)
    /\ Finish(h, Ok(type))
    /\ UNCHANGED <<storage, lastUrlByTab, nextId>>

\* lines 400-401 and 191: the default case throws, the listener answers
\* with the error.
UnknownMessage(h, type) ==
    /\ Free(h)
    /\ Finish(h, Err(type, "Unknown message type: " \o type))
    /\ UNCHANGED <<storage, lastUrlByTab, nextId>>

Start(h, in) ==
    \/ \E t \in in.tabs, u \in in.urls : NavStart(h, t, u, in.maxTrail)
    \/ \E u \in Users, v \in in.outcomes : LoginStart(h, u, v)
    \/ LogoutStart(h)
    \/ \E n \in in.names : StartStart(h, n)
    \/ PauseStart(h, in.maxTrail)
    \/ ResumeStart(h, in.maxTrail)
    \/ ClearStart(h)
    \/ EndStart(h)

StartItems(h, in) ==
    \/ \E n \in in.renames : RenameStart(h, n)
    \/ /\ ItemRoom(in.maxItems, in.maxIds)
       /\ \E tc \in in.timecodes :
              CaptureStart(h, "CAPTURE_TEXT", "sel", "https://a", "A", tc)
    \/ /\ ItemRoom(in.maxItems, in.maxIds)
       /\ \E pt \in in.pageTitles :
              CaptureStart(h, "CAPTURE_URL", "", "https://a", pt, Null)

Continue(h) ==
    \/ NavFlags(h) \/ NavTrail(h)
    \/ \E ok \in BOOLEAN : LoginFetched(h, ok)
    \/ LoginDone(h)
    \/ LogoutDone(h)
    \/ StartDone(h)
    \/ PauseRead(h) \/ PauseDone(h)
    \/ ResumeRead(h) \/ ResumeDone(h)
    \/ ClearDone(h)
    \/ EndAuth(h) \/ EndRead(h) \/ \E ok \in BOOLEAN : EndFetched(h, ok)
    \/ EndDone(h)

\* Handlers interleave at their awaits.  The inputs are the smallest that give
\* every handler its branches: one tab, one web page and one internal page.
RaceInputs ==
    [tabs |-> {1}, urls |-> {"https://a", "chrome://newtab"},
     names |-> {""}, outcomes |-> {TRUE}, maxTrail |-> MaxTrail]

Next == \E h \in Slots : Start(h, RaceInputs) \/ Continue(h)

Spec == Init /\ [][Next]_vars

\* Handlers run one at a time, each to completion.
SerialInputs ==
    [tabs |-> Tabs, urls |-> Urls, names |-> MsgNames, outcomes |-> BOOLEAN,
     maxTrail |-> MaxSerialTrail,
     renames |-> {"trip"}, timecodes |-> {"1:05"}, pageTitles |-> {""},
     maxItems |-> MaxItems, maxIds |-> MaxIds]

SerialNext ==
    \E h \in Slots :
        \/ AllIdle /\ (Start(h, SerialInputs) \/ StartItems(h, SerialInputs))
        \/ Continue(h)
        \/ RenameDone(h)
        \/ CaptureRead(h) \/ CaptureDone(h)

SerialSpec == Init /\ [][SerialNext]_vars

\* Every command of handleMessage and the page entry of the context menu,
\* one at a time, with several captured items at once; no page-load
\* events.  The commands are sent with the values of ItemInputs: a session
\* is started and renamed with and without a name, the captures are a page
\* (CAPTURE_URL, context menu) and a video range (CAPTURE_TEXT with
\* timecodes), and the remote store hands out one event id.
SampleFrames == <<[time |-> 6500, timecode |-> "1:05", dataUrl |-> "A"]>>

ItemInputs ==
    [names |-> {"", "trip"}, renames |-> {"", "trip"}, outcomes |-> BOOLEAN,
     eventIds |-> {"EVT-1"}, maxTrail |-> MaxListTrail,
     maxItems |-> MaxListItems, maxIds |-> MaxListIds,
     ids |-> 0..MaxListIds, types |-> UnknownTypes]

ItemStart(h, in) ==
    \/ \E u \in Users, v \in in.outcomes : LoginStart(h, u, v)
    \/ LogoutStart(h)
    \/ \E n \in in.names : StartStart(h, n)
    \/ \E n \in in.renames : RenameStart(h, n)
    \/ PauseStart(h, in.maxTrail)
    \/ ResumeStart(h, in.maxTrail)
    \/ ClearStart(h)
    \/ EndStart(h)
    \/ /\ ItemRoom(in.maxItems, in.maxIds)
       /\ CaptureStart(h, "CAPTURE_URL", "", "https://a", "", Null)
    \/ /\ ItemRoom(in.maxItems, in.maxIds)
       /\ CaptureVideoStart(h, "", "https://a", "A", "1:05", "1:10", SampleFrames)
    \/ \E id \in in.ids : DeleteStart(h, id)
    \/ \E id \in in.ids : SaveStart(h, id)
    \/ /\ ItemRoom(in.maxItems, in.maxIds)
       /\ MenuStart(h, "hdb-save-page", "", "https://a", "")
    \/ GetStateStart(h)
    \/ \E t \in in.types : UnknownMessage(h, t)

ItemContinue(h, in) ==
    \/ \E ok \in BOOLEAN : LoginFetched(h, ok)
    \/ LoginDone(h)
    \/ LogoutDone(h)
    \/ StartDone(h)
    \/ RenameDone(h)
    \/ PauseRead(h) \/ PauseDone(h)
    \/ ResumeRead(h) \/ ResumeDone(h)
    \/ ClearDone(h)
    \/ EndAuth(h) \/ EndRead(h) \/ \E ok \in BOOLEAN : EndFetched(h, ok)
    \/ EndDone(h)
    \/ MenuSession(h)
    \/ CaptureRead(h) \/ CaptureDone(h)
    \/ DeleteRead(h) \/ DeleteDone(h)
    \/ SaveAuth(h)
    \/ \E e \in in.eventIds : SaveRead(h, e)
    \/ \E ok \in BOOLEAN : SaveFetched(h, ok)
    \/ SaveDone(h)
    \/ GetStateDone(h)

ItemNext ==
    \E h \in Slots :
        \/ AllIdle /\ ItemStart(h, ItemInputs)
        \/ ItemContinue(h, ItemInputs)

ItemSpec == Init /\ [][ItemNext]_vars

\* Captures in every state of the session lifecycle, handlers one at a
\* time: page loads, LOGIN, LOGOUT, START_SESSION and PAUSE_SESSION bring
\* the states about; CAPTURE_TEXT is sent without and with a timecode, and
\* both entries of the context menu are clicked.
LifeInputs ==
    [tabs |-> {1}, urls |-> {"https://a"}, names |-> {""},
     outcomes |-> {TRUE}, maxTrail |-> MaxLifeTrail,
     maxItems |-> MaxLifeItems, maxIds |-> MaxLifeIds,
     timecodes |-> Timecodes]

LifeStart(h, in) ==
    \/ \E t \in in.tabs, u \in in.urls : NavStart(h, t, u, in.maxTrail)
    \/ \E u \in Users, v \in in.outcomes : LoginStart(h, u, v)
    \/ LogoutStart(h)
    \/ \E n \in in.names : StartStart(h, n)
    \/ PauseStart(h, in.maxTrail)
    \/ /\ ItemRoom(in.maxItems, in.maxIds)
       /\ \E tc \in in.timecodes :
              CaptureStart(h, "CAPTURE_TEXT", "sel", "https://a", "A", tc)
    \/ /\ ItemRoom(in.maxItems, in.maxIds)
       /\ CaptureStart(h, "CAPTURE_URL", "", "https://a", "A", Null)
    \/ /\ ItemRoom(in.maxItems, in.maxIds)
       /\ \/ MenuStart(h, "hdb-save-selection", "sel", "https://a", "A")
          \/ MenuStart(h, "hdb-save-page", "", "https://a", "A")

LifeContinue(h) ==
    \/ NavFlags(h) \/ NavTrail(h)
    \/ \E ok \in BOOLEAN : LoginFetched(h, ok)
    \/ LoginDone(h)
    \/ LogoutDone(h)
    \/ StartDone(h)
    \/ PauseRead(h) \/ PauseDone(h)
    \/ MenuSession(h)
    \/ CaptureRead(h) \/ CaptureDone(h)

LifeNext ==
    \E h \in Slots : (AllIdle /\ LifeStart(h, LifeInputs)) \/ LifeContinue(h)

LifeSpec == Init /\ [][LifeNext]_vars

\* The commands that read and write the captured items and the context
\* menu, in flight together: a handler's write lands after whatever the
\* other handler wrote since its read.  LOGIN is there because SAVE_TO_DB
\* and the context menu need a user; no command clears the list, and the
\* only id DELETE_CAPTURED is sent with is that of the first item.
ItemRaceInputs ==
    [outcomes |-> {TRUE}, maxItems |-> MaxRaceItems, maxIds |-> MaxRaceIds,
     ids |-> 1..MaxRaceIds, deleteIds |-> {1}]

ItemRaceStart(h, in) ==
    \/ \E u \in Users, v \in in.outcomes : LoginStart(h, u, v)
    \/ /\ ItemRoom(in.maxItems, in.maxIds)
       /\ CaptureStart(h, "CAPTURE_URL", "", "https://a", "", Null)
    \/ /\ ItemRoom(in.maxItems, in.maxIds)
       /\ MenuStart(h, "hdb-save-page", "", "https://a", "")
    \/ \E id \in in.deleteIds : DeleteStart(h, id)
    \/ \E id \in in.ids : SaveStart(h, id)

ItemRaceContinue(h) ==
    \/ \E ok \in BOOLEAN : LoginFetched(h, ok)
    \/ LoginDone(h)
    \/ MenuSession(h)
    \/ CaptureRead(h) \/ CaptureDone(h)
    \/ DeleteRead(h) \/ DeleteDone(h)
    \/ SaveAuth(h)
    \/ \E e \in EventIds : SaveRead(h, e)
    \/ \E ok \in BOOLEAN : SaveFetched(h, ok)
    \/ SaveDone(h)

ItemRaceNext ==
    \E h \in Slots : ItemRaceStart(h, ItemRaceInputs) \/ ItemRaceContinue(h)

ItemRaceSpec == Init /\ [][ItemRaceNext]_vars

\* CAPTURE_URL and SAVE_TO_DB in flight together, with LOGIN for the user
\* SAVE_TO_DB needs: nothing is sent that deletes an item or clears the
\* list.
CaptureRaceStart(h, in) ==
    \/ \E u \in Users, v \in in.outcomes : LoginStart(h, u, v)
    \/ /\ ItemRoom(in.maxItems, in.maxIds)
       /\ CaptureStart(h, "CAPTURE_URL", "", "https://a", "", Null)
    \/ \E id \in in.ids : SaveStart(h, id)

CaptureRaceContinue(h) ==
    \/ \E ok \in BOOLEAN : LoginFetched(h, ok)
    \/ LoginDone(h)
    \/ CaptureRead(h) \/ CaptureDone(h)
    \/ SaveAuth(h)
    \/ \E e \in EventIds : SaveRead(h, e)
    \/ \E ok \in BOOLEAN : SaveFetched(h, ok)
    \/ SaveDone(h)

CaptureRaceNext ==
    \E h \in Slots : CaptureRaceStart(h, ItemRaceInputs) \/ CaptureRaceContinue(h)

CaptureRaceSpec == Init /\ [][CaptureRaceNext]_vars

\* ======================================================================
\* Content script: frame capture over a range of a video (content.js)
\* ======================================================================
\* What the video shows is one of three pictures; Pixels gives the pixel
\* (r, g, b) at each of the 16 points getFrameHash samples.  A and B differ
\* at three points, C differs from A at two of them and from B at one.
Images == {"A", "B", "C"}
Outcomes == {"timeout", "error"} \cup Images
Ranges == {<<0, 500>>, <<0, 200>>, <<200, 200>>, <<300, 100>>}

Pixels(img) ==
    [k \in 1..16 |->
        IF (img = "B" /\ k <= 3) \/ (img = "C" /\ k <= 2)
        THEN <<200, 200, 200>> ELSE <<0, 0, 0>>]

\* lines 72-76: one sample point; px is the pixel read, or <<>> when
\* getImageData throws
sampleValue(px) ==
    IF px = <<>> THEN 0 ELSE (px[1] + px[2] + px[3]) \div 4

\* lines 68-81; pixels are the 16 pixels at the sample points, row by row
getFrameHash(pixels) == [k \in 1..16 |-> sampleValue(pixels[k])]

Abs(n) == IF n < 0 THEN -n ELSE n

hashesAreSimilar_atMost3(h1, h2) ==
    /\ h1 # <<>> /\ h2 # <<>>
    /\ Len(h1[1]) = Len(h2[1])
    /\ Cardinality({k \in 1..Len(h1[1]) : Abs(h1[1][k] - h2[1][k]) > 15}) <= 3

\* lines 83-87; a hash is <<h>>, a null or undefined argument is <<>>
hashesAreSimilar(h1, h2) ==
    /\ h1 # <<>> /\ h2 # <<>>
    /\ Len(h1[1]) = Len(h2[1])
    /\ Cardinality({k \in 1..Len(h1[1]) : Abs(h1[1][k] - h2[1][k]) > 15}) <= 2

Pad2(n) == IF n < 10 THEN "0" \o ToString(n) ELSE ToString(n)

\* lines 35-43; t is in hundredths of a second
secondsToTimecode(t) ==
    LET secs == t \div 100
        h == secs \div 3600
        m == (secs % 3600) \div 60
        sec == secs % 60
    IN  IF h > 0
        THEN ToString(h) \o ":" \o Pad2(m) \o ":" \o Pad2(sec)
        ELSE ToString(m) \o ":" \o Pad2(sec)

RECURSIVE Dedup(_)
Dedup(seq) ==
    IF seq = <<>> THEN <<>>
    ELSE LET init == Dedup(SubSeq(seq, 1, Len(seq) - 1))
             last == seq[Len(seq)]
         IN  IF \E k \in 1..Len(init) : init[k] = last
             THEN init ELSE Append(init, last)

\* ----------------------------------------------------------------------
\* The numbers of computeFrameTimestamps are IEEE 754 doubles.  A double x
\* with 0 <= x < 65536 that is a multiple of 2^-64 (every double from
\* 2^-11 up is one) is held as the natural number x * 2^64, in four limbs
\* of 20 bits, lowest first.  Each operation computes the exact result and
\* rounds it to 53 significant bits, ties to even, as the hardware does.
Base == 1048576
Zero == <<0, 0, 0, 0>>
Whole(n) == <<0, 0, 0, 16 * n>>
One == Whole(1)
Thirty == Whole(30)

\* the limbs brought back into 0..Base-1 (a limb may be negative or large)
Carry(x) ==
    LET v2 == x[2] + x[1] \div Base
        v3 == x[3] + v2 \div Base
        v4 == x[4] + v3 \div Base
    IN  <<x[1] % Base, v2 % Base, v3 % Base, v4>>

Plus(x, y) == Carry([k \in 1..4 |-> x[k] + y[k]])
Minus(x, y) == Carry([k \in 1..4 |-> x[k] - y[k]])
Times(x, m) == Carry([k \in 1..4 |-> x[k] * m])
Less(x, y) ==
    \E k \in 1..4 : x[k] < y[k] /\ \A j \in (k + 1)..4 : x[j] = y[j]

\* floor(x / d) and whether anything was left over, for 0 < d <= 100
Quotient(x, d) ==
    LET c4 == x[4]
        c3 == (c4 % d) * Base + x[3]
        c2 == (c3 % d) * Base + x[2]
        c1 == (c2 % d) * Base + x[1]
    IN  [q |-> <<c1 \div d, c2 \div d, c3 \div d, c4 \div d>>,
         inexact |-> c1 % d # 0]

RECURSIVE BitLength(_)
BitLength(n) == IF n = 0 THEN 0 ELSE 1 + BitLength(n \div 2)

Bits(x) ==
    IF x = Zero THEN 0
    ELSE LET k == CHOOSE j \in 1..4 : x[j] # 0 /\ \A i \in (j + 1)..4 : x[i] = 0
         IN  20 * (k - 1) + BitLength(x[k])

\* x, or x and a bit more when `inexact`, rounded to 53 significant bits,
\* ties to even
toDouble(x, inexact) ==
    LET s == Bits(x) - 53
    IN  IF s <= 0 THEN x
        ELSE LET low == IF s <= 20 THEN x[1] % 2^s
                        ELSE (x[2] % 2^(s - 20)) * Base + x[1]
                 half == 2^(s - 1)
                 unit == [k \in 1..4 |-> IF k = s \div 20 + 1 THEN 2^(s % 20) ELSE 0]
                 odd == (x[s \div 20 + 1] \div 2^(s % 20)) % 2 = 1
                 down == Minus(x, <<low % Base, low \div Base, 0, 0>>)
             IN  IF low > half \/ (low = half /\ (inexact \/ odd))
                 THEN Plus(down, unit) ELSE down

\* the double nearest to k / 100: a time given in hundredths of a second
Double(k) == LET d == Quotient(Whole(k), 100) IN toDouble(d.q, d.inexact)

fadd(x, y) == toDouble(Plus(x, y), FALSE)
fsub(x, y) == IF Less(x, y) THEN Zero ELSE toDouble(Minus(x, y), FALSE)
fmul(x, m) == toDouble(Times(x, m), FALSE)
fdiv(x, d) == LET r == Quotient(x, d) IN toDouble(r.q, r.inexact)
fmin(x, y) == IF Less(y, x) THEN y ELSE x
fmax(x, y) == IF Less(x, y) THEN y ELSE x

\* Math.round: the nearest whole number, halves up
MathRound(x) == Plus(x, <<0, 0, 0, 8>>)[4] \div 16

\* line 55: Math.max(0, endSecs - startSecs); fsub gives 0 for a negative
\* difference
duration(startSecs, endSecs) == fsub(Double(endSecs), Double(startSecs))

\* lines 59-61: the loop from t on; Math.round(t * 10) / 10 is the double
\* nearest to a number of tenths, given here in hundredths of a second
RECURSIVE stampsFrom(_, _, _)
stampsFrom(t, limit, interval) ==
    IF Less(t, limit)
    THEN <<10 * MathRound(fmul(t, 10))>>
         \o stampsFrom(fadd(t, interval), limit, interval)
    ELSE <<>>

computeFrameTimestamps_twentyFrames(startSecs, endSecs) ==
    LET interval == fmax(One, fmin(Thirty, fdiv(duration(startSecs, endSecs), 20)))
    IN  IF Less(duration(startSecs, endSecs), One) THEN <<startSecs>>
        ELSE Dedup(stampsFrom(Double(startSecs),
                              fsub(Double(endSecs), Double(10)), interval)
                   \o <<endSecs>>)

computeFrameTimestamps_endInShortRange(startSecs, endSecs) ==
    LET interval == fmax(One, fmin(Thirty, fdiv(duration(startSecs, endSecs), 15)))
    IN  IF Less(duration(startSecs, endSecs), One)
        THEN Dedup(<<startSecs, endSecs>>)
        ELSE Dedup(stampsFrom(Double(startSecs),
                              fsub(Double(endSecs), Double(10)), interval)
                   \o <<endSecs>>)

computeFrameTimestamps_noEnd(startSecs, endSecs) ==
    LET interval == fmax(One, fmin(Thirty, fdiv(duration(startSecs, endSecs), 15)))
    IN  IF Less(duration(startSecs, endSecs), One) THEN <<startSecs>>
        ELSE Dedup(stampsFrom(Double(startSecs),
                              fsub(Double(endSecs), Double(10)), interval))

computeFrameTimestamps_noMax(startSecs, endSecs) ==
    LET interval == fmax(One, fdiv(duration(startSecs, endSecs), 15))
    IN  IF Less(duration(startSecs, endSecs), One) THEN <<startSecs>>
        ELSE Dedup(stampsFrom(Double(startSecs),
                              fsub(Double(endSecs), Double(10)), interval)
                   \o <<endSecs>>)

\* lines 54-65.  startSecs and endSecs are in hundredths of a second and
\* stand for the doubles nearest to them; so do the stamps returned.  The
\* Set of line 64 keeps the first of equal stamps.
computeFrameTimestamps(startSecs, endSecs) ==
    LET interval == fmax(One, fmin(Thirty, fdiv(duration(startSecs, endSecs), 15)))
    IN  IF Less(duration(startSecs, endSecs), One) THEN <<startSecs>>
        ELSE Dedup(stampsFrom(Double(startSecs),
                              fsub(Double(endSecs), Double(10)), interval)
                   \o <<endSecs>>)

\* lines 111: the frame captureVideoFrame resolves with
Frame(t, img) ==
    [time |-> t, timecode |-> secondsToTimecode(t), dataUrl |-> img,
     hash |-> getFrameHash(Pixels(img))]

\* lines 90-120: the seek times out or the drawing throws (null), or the
\* picture shown is drawn.
captureVideoFrame(t, outcome) ==
    IF outcome \in Images THEN <<Frame(t, outcome)>> ELSE <<>>

keepFrame_always(lastHash, frame) == frame # <<>>

\* line 134
keepFrame(lastHash, frame) ==
    /\ frame # <<>>
    /\ (lastHash = <<>> \/ ~hashesAreSimilar(lastHash, <<frame[1].hash>>))

hasNext_untilNull(stamps, i, frame) == i < Len(stamps) /\ frame # <<>>

\* line 132: the loop goes on to the next stamp, whatever the frame was
hasNext(stamps, i, frame) == i < Len(stamps)

restoreVideo_playOnly(v, origTime, wasPaused) ==
    [v EXCEPT !.paused = IF wasPaused THEN v.paused ELSE FALSE]

\* lines 143-145
restoreVideo(v, origTime, wasPaused) ==
    [v EXCEPT !.currentTime = origTime,
              !.paused = IF wasPaused THEN v.paused ELSE FALSE]

NoCaptureRuns == \A c \in Captures : caps[c].pc = "idle"

FreeCapture(c) ==
    /\ caps[c].pc = "idle"
    /\ \A d \in Captures : d < c => caps[d].pc # "idle"

\* The page and its user, while no capture runs: a video element appears,
\* is played and paused, and plays on by a second at a time.
VideoAppears ==
    /\ NoCaptureRuns /\ ~video.present
    /\ video' = [present |-> TRUE, currentTime |-> 0, paused |-> TRUE]
    /\ frameResponse' = NoFrames
    /\ UNCHANGED <<worker, caps, call>>

UserPlays ==
    /\ NoCaptureRuns /\ video.present /\ video.paused
    /\ video' = [video EXCEPT !.paused = FALSE]
    /\ frameResponse' = NoFrames
    /\ UNCHANGED <<worker, caps, call>>

UserPauses ==
    /\ NoCaptureRuns /\ video.present /\ ~video.paused
    /\ video' = [video EXCEPT !.paused = TRUE]
    /\ frameResponse' = NoFrames
    /\ UNCHANGED <<worker, caps, call>>

Plays ==
    /\ NoCaptureRuns /\ video.present /\ ~video.paused
    /\ video.currentTime < 100 * MaxPlayed
    /\ video' = [video EXCEPT !.currentTime = video.currentTime + 100]
    /\ frameResponse' = NoFrames
    /\ UNCHANGED <<worker, caps, call>>

\* lines 123-132: up to the first awaited captureVideoFrame, which has
\* set video.currentTime (line 118).
CaptureBegin(c, startSecs, endSecs) ==
    /\ FreeCapture(c)
    /\ IF ~video.present
       THEN /\ frameResponse' = [NoFrames EXCEPT !.done = TRUE]
            /\ UNCHANGED <<video, caps>>
       ELSE /\ caps' = [caps EXCEPT ![c] =
                   [NoCapture EXCEPT
                       !.pc = "seeking",
                       !.stamps = computeFrameTimestamps(startSecs, endSecs),
                       !.i = 1,
                       !.origTime = video.currentTime,
                       !.wasPaused = video.paused]]
            /\ video' = [video EXCEPT
                   !.paused = TRUE,
                   !.currentTime = computeFrameTimestamps(startSecs, endSecs)[1]]
            /\ frameResponse' = NoFrames
    /\ UNCHANGED <<worker, call>>

CaptureStep_waitsForSeek(c, outcome) ==
    /\ caps[c].pc = "seeking"
    /\ outcome # "timeout"
    /\ LET cap == caps[c]
           frame == captureVideoFrame(cap.stamps[cap.i], outcome)
           keep == keepFrame(cap.lastHash, frame)
           frames == IF keep
                     THEN Append(cap.frames,
                                 [time |-> frame[1].time,
                                  timecode |-> frame[1].timecode,
                                  dataUrl |-> frame[1].dataUrl])
                     ELSE cap.frames
           lastHash == IF keep THEN <<frame[1].hash>> ELSE cap.lastHash
           attempts == Append(cap.attempts, outcome)
       IN  IF hasNext(cap.stamps, cap.i, frame)
           THEN /\ caps' = [caps EXCEPT ![c].i = cap.i + 1,
                                        ![c].frames = frames,
                                        ![c].lastHash = lastHash,
                                        ![c].attempts = attempts]
                /\ video' = [video EXCEPT !.currentTime = cap.stamps[cap.i + 1]]
                /\ frameResponse' = NoFrames
           ELSE /\ caps' = [caps EXCEPT ![c] = NoCapture]
                /\ video' = restoreVideo(video, cap.origTime, cap.wasPaused)
                /\ frameResponse' = [done |-> TRUE, frames |-> frames,
                                     attempts |-> attempts]
    /\ UNCHANGED <<worker, call>>

\* lines 133-147: captureVideoFrame resolves for stamp i; the frame is kept
\* or not; the next stamp is sought, or the video is restored and the frames
\* are returned.  `attempts` records the outcomes drawn so far.
CaptureStep(c, outcome) ==
    /\ caps[c].pc = "seeking"
    /\ LET cap == caps[c]
           frame == captureVideoFrame(cap.stamps[cap.i], outcome)
           keep == keepFrame(cap.lastHash, frame)
           frames == IF keep
                     THEN Append(cap.frames,
                                 [time |-> frame[1].time,
                                  timecode |-> frame[1].timecode,
                                  dataUrl |-> frame[1].dataUrl])
                     ELSE cap.frames
           lastHash == IF keep THEN <<frame[1].hash>> ELSE cap.lastHash
           attempts == Append(cap.attempts, outcome)
       IN  IF hasNext(cap.stamps, cap.i, frame)
           THEN /\ caps' = [caps EXCEPT ![c].i = cap.i + 1,
                                        ![c].frames = frames,
                                        ![c].lastHash = lastHash,
                                        ![c].attempts = attempts]
                /\ video' = [video EXCEPT !.currentTime = cap.stamps[cap.i + 1]]
                /\ frameResponse' = NoFrames
           ELSE /\ caps' = [caps EXCEPT ![c] = NoCapture]
                /\ video' = restoreVideo(video, cap.origTime, cap.wasPaused)
                /\ frameResponse' = [done |-> TRUE, frames |-> frames,
                                     attempts |-> attempts]
    /\ UNCHANGED <<worker, call>>

FrameNext ==
    \/ VideoAppears
    \/ UserPlays
    \/ UserPauses
    \/ Plays
    \/ \E c \in Captures, r \in Ranges :
           NoCaptureRuns /\ CaptureBegin(c, r[1], r[2])
    \/ \E c \in Captures, o \in Outcomes : CaptureStep(c, o)

FrameSpec == Init /\ [][FrameNext]_vars

\* A seek may complete or not, but the 3.5 s timer of captureVideoFrame
\* (lines 92-94) always runs: a capture that is still waiting for a seek
\* is resumed by the timer.
FrameLiveSpec ==
    /\ Init /\ [][FrameNext]_vars
    /\ \A c \in Captures : WF_vars(CaptureStep(c, "timeout"))

\* Captures that overlap: captureFramesForRange is called again (by the
\* CAPTURE_FRAMES_IN_RANGE listener, lines 403-408, or by handleSave, line
\* 276) while a call is awaiting a frame.  The ranges captured lie after
\* every position the user plays the video to.
RaceRanges ==
    {<<100 * MaxPlayed + 100, 100 * MaxPlayed + 200>>,
     <<100 * MaxPlayed + 200, 100 * MaxPlayed + 200>>}

FrameRaceNext ==
    \/ VideoAppears
    \/ UserPlays
    \/ UserPauses
    \/ Plays
    \/ \E c \in Captures, r \in RaceRanges : CaptureBegin(c, r[1], r[2])
    \/ \E c \in Captures, o \in Outcomes : CaptureStep(c, o)

FrameRaceSpec == Init /\ [][FrameRaceNext]_vars

\* ======================================================================
\* Content script: the pure functions, one call at a time
\* ======================================================================
\* A behaviour makes one call: the functions keep no state, so a call
\* does not depend on the calls before it.
\* Ranges start at a whole second plus 0, 0.24, 0.4 or 0.5 s
\* (video.currentTime is not a whole number of seconds) and last a number
\* of half seconds; 1.4 - 0.4 is less than 1 in doubles.
StartOffsets == {0, 24, 40, 50}
SampleStarts == {100 * n + o : n \in 0..MaxStartSecs, o \in StartOffsets}
SampleDurations == {50 * n : n \in 0..MaxDurationHalves}

\* Hashes that are compared: every array of up to MaxHashLen values, the
\* hashes of the three pictures, sixteen 0s and sixteen 64s; <<>> is a
\* missing hash (null or undefined).
HashValues == {0, 15, 16, 64}
RECURSIVE Arrays(_)
Arrays(n) ==
    IF n = 0 THEN {<<>>}
    ELSE Arrays(n - 1)
         \cup {Append(a, v) : a \in {b \in Arrays(n - 1) : Len(b) = n - 1},
                              v \in HashValues}
Sixteen(v) == [k \in 1..16 |-> v]
Hashes ==
    Arrays(MaxHashLen) \cup {getFrameHash(Pixels(img)) : img \in Images}
                       \cup {Sixteen(0), Sixteen(64)}
MaybeHashes == {<<>>} \cup {<<h>> : h \in Hashes}

\* Pixels that are sampled: one point of a picture is replaced by a pixel
\* with each channel one of Channels, or by a failing read (<<>>); White is
\* the picture with all channels at 255.
Channels == {0, 1, 85, 170, 255}
SamplePixels == {<<>>} \cup (Channels \X Channels \X Channels)
White == [k \in 1..16 |-> <<255, 255, 255>>]
Pictures == {Pixels(img) : img \in Images} \cup {White}

SampleCall(startSecs, endSecs) ==
    /\ call' = [fn |-> "computeFrameTimestamps",
                args |-> <<startSecs, endSecs>>,
                result |-> computeFrameTimestamps(startSecs, endSecs)]
    /\ UNCHANGED <<worker, video, caps, frameResponse>>

SimilarCall(h1, h2) ==
    /\ call' = [fn |-> "hashesAreSimilar",
                args |-> <<h1, h2>>,
                result |-> <<hashesAreSimilar(h1, h2)>>]
    /\ UNCHANGED <<worker, video, caps, frameResponse>>

HashCall(pixels) ==
    /\ call' = [fn |-> "getFrameHash",
                args |-> <<pixels>>,
                result |-> getFrameHash(pixels)]
    /\ UNCHANGED <<worker, video, caps, frameResponse>>

PureNext ==
    /\ call = NoCall
    /\ \/ \E s \in SampleStarts, d \in SampleDurations : SampleCall(s, s + d)
       \/ \E h1 \in MaybeHashes, h2 \in MaybeHashes : SimilarCall(h1, h2)
       \/ \E p \in Pictures, k \in 1..16, px \in SamplePixels :
              HashCall([p EXCEPT ![k] = px])

PureSpec == Init /\ [][PureNext]_vars

\* ======================================================================
\* Properties
\* ======================================================================
IsPage(e) == e.type = "page"
IsPrefix(s, t) == Len(s) <= Len(t) /\ SubSeq(t, 1, Len(s)) = s
EndsWith(trail, e) == Len(trail) > 0 /\ trail[Len(trail)] = e
Steps(h) == slots'[h] # slots[h]
Completes(h, pc) == slots[h].pc = pc /\ slots'[h].pc = "idle"

\* C1: in every reachable state, whatever the interleaving of page-load
\* events and commands, no two adjacent Page entries of the stored trail
\* have the same url.
C1_NoAdjacentDuplicatePages ==
    \A i \in 1..(Len(hdb_current_trail) - 1) :
        ~ /\ IsPage(hdb_current_trail[i])
          /\ IsPage(hdb_current_trail[i + 1])
          /\ hdb_current_trail[i].url = hdb_current_trail[i + 1].url

\* A page-load handler about to finish holds a stale, shorter copy of the
\* trail while the stored trail already ends with a Page entry of its url.
C1_Witness ==
    \E h \in Slots :
        /\ slots[h].pc = "nav_trail"
        /\ Len(slots[h].sTrail) < Len(hdb_current_trail)
        /\ IsPage(hdb_current_trail[Len(hdb_current_trail)])
        /\ hdb_current_trail[Len(hdb_current_trail)].url = slots[h].url

\* C2: a page-load handler and a PauseSession in flight together lose no
\* update: whichever of the two writes second, the trail it leaves is the
\* stored trail (which already holds the other one's entry) plus its own
\* entry, and sessionPaused is true once PauseSession has written.
C2_NoLostUpdate ==
    [][\A h \in Slots :
          /\ ( /\ slots[h].pc = "pause_read" /\ Steps(h) /\ slots[h].sActive
               /\ hdb_session_active
               /\ hdb_current_trail # slots[h].sTrail
               /\ IsPrefix(slots[h].sTrail, hdb_current_trail)
               /\ IsPage(hdb_current_trail[Len(hdb_current_trail)]) )
             => ( /\ hdb_current_trail' = Append(hdb_current_trail, pauseMarker)
                  /\ hdb_session_paused' )
          /\ ( /\ Completes(h, "nav_trail")
               /\ hdb_session_active
               /\ hdb_current_trail # slots[h].sTrail
               /\ IsPrefix(slots[h].sTrail, hdb_current_trail)
               /\ EndsWith(hdb_current_trail, pauseMarker) )
             => ( /\ hdb_current_trail' =
                        Append(hdb_current_trail,
                               PageEntry(slots[h].url, slots[h].fromUrl))
                  /\ hdb_session_paused' )
      ]_vars

\* C3: whenever the page-load handler writes the trail, the stored session
\* is Active: sessionActive is true and sessionPaused is false.
C3_PageWriteOnlyWhenActive ==
    [][\A h \in Slots :
          ( /\ Completes(h, "nav_trail")
            /\ ~IsBackToBack(slots[h].sTrail, slots[h].url) )
          => (hdb_session_active /\ ~hdb_session_paused)
      ]_vars

\* C4: the trail is append-only between session boundaries: every step that
\* is not the clearing write of StartSession, EndSession, Logout or
\* ClearTrail leaves the old trail a prefix of the new one.
BoundaryWrite ==
    \E h \in Slots :
        /\ Steps(h)
        /\ slots'[h].pc \in {"start_set", "end_set", "logout_set", "clear_set"}

C4_TrailAppendOnly ==
    [][BoundaryWrite \/ IsPrefix(hdb_current_trail, hdb_current_trail')]_vars

Cleared ==
    /\ ~hdb_session_active
    /\ ~hdb_session_paused
    /\ hdb_session_name = ""
    /\ hdb_current_trail = <<>>
    /\ hdb_captured_items = <<>>

\* C5: an EndSession that found a logged-in user completes with the session
\* flags false, the name empty, the trail and the captured items empty, and
\* answers ok, whether the remote save succeeded or threw; its save result is
\* null when the remote save threw.
C5_EndSessionAlwaysClears ==
    [][\A h \in Slots :
          ( /\ slots[h].op = "END_SESSION"
            /\ slots[h].pc # "end_auth"
            /\ slots'[h].pc = "idle" )
          => ( /\ Cleared'
               /\ response'.op = "END_SESSION"
               /\ response'.ok
               /\ (~slots[h].valid => response'.savedSession = <<>>) )
      ]_vars

\* EndSession has just answered ok with a null save result.
C5_Witness ==
    /\ response.op = "END_SESSION"
    /\ response.ok
    /\ response.savedSession = <<>>
    /\ hdb_ext_session # Null
    /\ Cleared

\* C6: an EndSession that finds no logged-in user answers with the auth
\* error, never reaches the remote store, and leaves the stored state and the
\* navigation memory as they were.
C6_EndSessionNeedsLogin ==
    [][\A h \in Slots :
          ( /\ slots[h].op = "END_SESSION"
            /\ slots[h].pc = "end_auth"
            /\ hdb_ext_session = Null
            /\ Steps(h) )
          => ( /\ slots'[h].pc = "idle"
               /\ response' = Err("END_SESSION", "Not logged in")
               /\ UNCHANGED <<storage, lastUrlByTab>> )
      ]_vars

\* EndSession was refused while a session with a trail and a navigation
\* memory exists.
C6_Witness ==
    /\ response = Err("END_SESSION", "Not logged in")
    /\ hdb_session_active
    /\ hdb_current_trail # <<>>
    /\ lastUrlByTab # EmptyTabMap

\* C7: PauseSession fails with the state error exactly when sessionActive is
\* false at call time; a failed PauseSession leaves sessionPaused and the
\* trail unchanged; a successful one sets sessionPaused and appends exactly
\* one PauseMarker to the trail.
C7_PauseSession ==
    [][\A h \in Slots :
          /\ ( slots[h].pc = "pause_read" /\ Steps(h) )
             => IF ~hdb_session_active
                THEN /\ slots'[h].pc = "idle"
                     /\ response' = Err("PAUSE_SESSION", "No active session to pause")
                     /\ UNCHANGED <<hdb_session_paused, hdb_current_trail>>
                ELSE /\ slots'[h].pc = "pause_set"
                     /\ hdb_session_paused'
                     /\ hdb_current_trail' = Append(hdb_current_trail, pauseMarker)
          /\ Completes(h, "pause_set")
             => ( /\ response' = Ok("PAUSE_SESSION")
                  /\ UNCHANGED storage )
      ]_vars

\* PauseSession has succeeded on a session that was already Paused.
C7_Witness ==
    /\ response = Ok("PAUSE_SESSION")
    /\ Len(hdb_current_trail) >= 2
    /\ hdb_current_trail[Len(hdb_current_trail)] = pauseMarker
    /\ hdb_current_trail[Len(hdb_current_trail) - 1] = pauseMarker

\* C8: after PauseSession then ResumeSession, the next page-load event with
\* a web URL is accepted and appended as a Page entry with fromUrl null, also
\* when its URL is that of the last Page entry recorded before the pause.
AfterPauseResume ==
    /\ Len(hdb_current_trail) >= 2
    /\ hdb_current_trail[Len(hdb_current_trail)] = resumeMarker
    /\ hdb_current_trail[Len(hdb_current_trail) - 1] = pauseMarker

C8_RecordedAfterResume ==
    [][\A h \in Slots :
          /\ ( slots[h].pc = "nav_flags" /\ Steps(h) /\ AfterPauseResume )
             => ( /\ slots'[h].pc = "nav_trail"
                  /\ slots'[h].fromUrl = Null )
          /\ ( Completes(h, "nav_trail") /\ AfterPauseResume )
             => hdb_current_trail' =
                    Append(hdb_current_trail, PageEntry(slots[h].url, Null))
      ]_vars

\* The page visited before the pause was recorded again after the resume.
C8_Witness ==
    /\ Len(hdb_current_trail) = 4
    /\ IsPage(hdb_current_trail[1])
    /\ hdb_current_trail[2] = pauseMarker
    /\ hdb_current_trail[3] = resumeMarker
    /\ hdb_current_trail[4] = PageEntry(hdb_current_trail[1].url, Null)

\* C9: StartSession, ResumeSession, an authenticated EndSession, ClearTrail
\* and Logout complete with an empty navigation memory, and nothing else
\* empties a navigation memory that remembers a URL.
ResetPcs == {"start_set", "resume_set", "end_set", "clear_set", "logout_set"}

C9_MemoryReset ==
    [][/\ \A h \in Slots :
             ( slots[h].pc \in ResetPcs /\ slots'[h].pc = "idle" )
             => lastUrlByTab' = EmptyTabMap
       /\ ( lastUrlByTab # EmptyTabMap /\ lastUrlByTab' = EmptyTabMap )
          => \E h \in Slots : slots[h].pc \in ResetPcs /\ slots'[h].pc = "idle"
      ]_vars

\* ResumeSession has completed, with an empty navigation memory, in a
\* session whose trail holds a recorded (and so remembered) page.
C9_Witness ==
    /\ response = Ok("RESUME_SESSION")
    /\ lastUrlByTab = EmptyTabMap
    /\ \E i \in 1..Len(hdb_current_trail) : IsPage(hdb_current_trail[i])

\* C10: when StartSession completes the session is Active, the trail and the
\* captured items are empty, the stored name is the supplied name, or a
\* generated non-empty name when none was supplied, and the returned name is
\* the stored name.
C10_StartSession ==
    [][\A h \in Slots :
          Completes(h, "start_set")
          => ( /\ hdb_session_active' /\ ~hdb_session_paused'
               /\ hdb_current_trail' = <<>>
               /\ hdb_captured_items' = <<>>
               /\ hdb_session_name' # ""
               /\ (slots[h].name # "" => hdb_session_name' = slots[h].name)
               /\ response'.op = "START_SESSION" /\ response'.ok
               /\ response'.name = hdb_session_name' )
      ]_vars

\* StartSession without a name has completed with the generated name.
C10_Witness ==
    /\ response.op = "START_SESSION"
    /\ response.name = generateSessionName
    /\ hdb_session_name = generateSessionName
    /\ hdb_session_active

\* C11: Logout, from any state (no session, Active or Paused; logged in or
\* not), completes with no logged-in user, sessionActive and sessionPaused
\* false, an empty session name, an empty trail, no captured items and an
\* empty navigation memory.
C11_LogoutClearsEverything ==
    [][\A h \in Slots :
          Completes(h, "logout_set")
          => ( /\ hdb_ext_session' = Null
               /\ Cleared'
               /\ lastUrlByTab' = EmptyTabMap
               /\ response' = Ok("LOGOUT") )
      ]_vars

\* Logout has written the cleared state over a session that had captured an
\* item and still remembers a visited page; the memory is reset next.
C11_Witness ==
    \E h \in Slots :
        /\ slots[h].pc = "logout_set"
        /\ nextId > 0
        /\ lastUrlByTab # EmptyTabMap
        /\ hdb_ext_session = Null
        /\ Cleared

\* C12: after a successful Login the session is in NoSession (sessionActive
\* false, sessionPaused false), from every state Login can be issued in,
\* also after a StartSession issued before the login.
C12_LoginGivesNoSession ==
    [][\A h \in Slots :
          Completes(h, "login_set")
          => ( ~hdb_session_active' /\ ~hdb_session_paused' )
      ]_vars

\* C13: DeleteCaptured(id) removes exactly the captured items whose id is
\* id: the other items remain, in the same order and with every field
\* (saved, savedEventId included) as it was; the session flags, the name,
\* the user and the trail are unchanged; an id no item has leaves the list
\* as it was; the answer is ok in both cases.
KeptAt(items, id) == {k \in 1..Len(items) : items[k].id # id}

C13_DeleteCaptured ==
    [][\A h \in Slots :
          /\ ( slots[h].pc = "delete_read" /\ Steps(h) )
             => ( /\ Len(hdb_captured_items') =
                         Cardinality(KeptAt(hdb_captured_items, slots[h].id))
                  /\ \A k \in KeptAt(hdb_captured_items, slots[h].id) :
                         hdb_captured_items'[Cardinality(
                             {j \in KeptAt(hdb_captured_items, slots[h].id) : j <= k})]
                         = hdb_captured_items[k]
                  /\ ( KeptAt(hdb_captured_items, slots[h].id)
                           = 1..Len(hdb_captured_items)
                       => hdb_captured_items' = hdb_captured_items )
                  /\ slots'[h].pc = "delete_set"
                  /\ UNCHANGED <<hdb_ext_session, session_keys, hdb_current_trail>> )
          /\ Completes(h, "delete_set")
             => ( /\ response' = Ok("DELETE_CAPTURED")
                  /\ UNCHANGED storage )
      ]_vars

\* The second of three items has been deleted: the first, saved, and the
\* third are left in their order.
C13_Witness ==
    /\ response = Ok("DELETE_CAPTURED")
    /\ Len(hdb_captured_items) = 2
    /\ hdb_captured_items[1].id = 1 /\ hdb_captured_items[1].saved
    /\ hdb_captured_items[2].id = 3 /\ ~hdb_captured_items[2].saved

\* C14: SaveToDatabase(id) with no logged-in user fails with the auth
\* error, whether or not an item has that id; with a logged-in user and no
\* item of that id it fails with the not-found error and makes no remote
\* create call; in both cases the captured items are unchanged.
C14_SaveToDatabaseErrors ==
    [][\A h \in Slots :
          /\ ( slots[h].pc = "save_auth" /\ Steps(h) /\ hdb_ext_session = Null )
             => ( /\ slots'[h].pc = "idle"
                  /\ response' = Err("SAVE_TO_DB", "Not logged in")
                  /\ UNCHANGED hdb_captured_items )
          /\ ( /\ slots[h].pc = "save_read" /\ Steps(h)
               /\ hdb_ext_session # Null
               /\ \A k \in 1..Len(hdb_captured_items) :
                      hdb_captured_items[k].id # slots[h].id )
             => ( /\ slots'[h].pc = "idle"
                  /\ response' = Err("SAVE_TO_DB", "Capture item not found")
                  /\ UNCHANGED hdb_captured_items )
      ]_vars

\* A logged-in user asked to save an id that none of the captured items has.
C14_Witness ==
    /\ response = Err("SAVE_TO_DB", "Capture item not found")
    /\ hdb_ext_session # Null
    /\ hdb_captured_items # <<>>

\* C15: a captured item is created with saved false and no saved record id;
\* from then on the only step that changes a field of it is a successful
\* SaveToDatabase on its own id, which sets saved and records the id of the
\* created record; a SaveToDatabase whose remote create fails changes no
\* item.
C15_ItemOnlyChangedBySave ==
    [][/\ \A k \in 1..Len(hdb_captured_items), j \in 1..Len(hdb_captured_items') :
             hdb_captured_items[k].id = hdb_captured_items'[j].id
             => \/ hdb_captured_items'[j] = hdb_captured_items[k]
                \/ \E h \in Slots :
                      /\ slots[h].pc = "save_fetch" /\ slots'[h].pc = "save_set"
                      /\ slots[h].id = hdb_captured_items[k].id
                      /\ hdb_captured_items'[j] =
                             [hdb_captured_items[k] EXCEPT
                                 !.saved = TRUE,
                                 !.savedEventId = slots[h].eventId]
       /\ \A j \in 1..Len(hdb_captured_items') :
             ( \A k \in 1..Len(hdb_captured_items) :
                   hdb_captured_items[k].id # hdb_captured_items'[j].id )
             => ( /\ ~hdb_captured_items'[j].saved
                  /\ hdb_captured_items'[j].savedEventId = Null )
       /\ \A h \in Slots :
             /\ Completes(h, "save_fetch")
                => ( ~response'.ok /\ UNCHANGED hdb_captured_items )
             /\ Completes(h, "save_set")
                => ( /\ response'.ok
                     /\ response'.eventId = slots[h].eventId
                     /\ UNCHANGED hdb_captured_items )
      ]_vars

\* One item has just been saved and carries the created record's id; another
\* item is still unsaved.
C15_Witness ==
    /\ response.op = "SAVE_TO_DB" /\ response.ok
    /\ \E k, j \in 1..Len(hdb_captured_items) :
          /\ hdb_captured_items[k].saved
          /\ hdb_captured_items[k].savedEventId = response.eventId
          /\ ~hdb_captured_items[j].saved
          /\ hdb_captured_items[j].savedEventId = Null

\* C16: a CaptureText that carries a frame list and an end timecode produces
\* an item with them attached: the stored item's and the returned item's
\* frames are the frames sent and their timecodeEnd is the one sent.
Field(r, name, default) == IF name \in DOMAIN r THEN r[name] ELSE default

C16_FramesAttached ==
    [][\A h \in Slots :
          /\ ( /\ slots[h].pc = "capture_read" /\ Steps(h)
               /\ slots[h].frames # <<>>
               /\ slots[h].timecodeEnd # Null )
             => ( /\ Field(hdb_captured_items'[Len(hdb_captured_items')],
                           "frames", <<>>) = slots[h].frames
                  /\ Field(hdb_captured_items'[Len(hdb_captured_items')],
                           "timecodeEnd", Null) = slots[h].timecodeEnd )
          /\ ( /\ Completes(h, "capture_set") /\ slots[h].op = "CAPTURE_TEXT"
               /\ slots[h].frames # <<>>
               /\ slots[h].timecodeEnd # Null )
             => ( /\ Field(response'.item[1], "frames", <<>>) = slots[h].frames
                  /\ Field(response'.item[1], "timecodeEnd", Null)
                         = slots[h].timecodeEnd )
      ]_vars

\* C17: every command gets exactly one response: a handler answers when it
\* ends and only then, with its result or with a structured error (auth,
\* state, not-found and remote failures are error responses); an unknown
\* command gets an error response and changes no state; a handler in flight
\* always has a next step, so no request is left unanswered.
IsError(r) == r.error # "" /\ ~r.ok /\ r.state = <<>>
IsResult(r) == r.error = "" /\ (r.ok \/ r.state # <<>>)
Listeners == {"NAV", "MENU"}
Ends(h) == slots[h].op \notin {"idle"} \cup Listeners /\ slots'[h].pc = "idle"

C17_OneResponsePerCommand ==
    /\ [][/\ \A h \in Slots :
                 /\ Ends(h) => ( /\ response'.op = slots[h].op
                                 /\ (IsError(response') \/ IsResult(response')) )
                 /\ ( slots'[h].op \notin {"idle"} \cup Listeners /\ Steps(h) )
                    => response' = NoResponse
           /\ ( response' # NoResponse /\ (\A g \in Slots : ~Ends(g)) )
              => ( /\ response'.op \in UnknownTypes
                   /\ IsError(response')
                   /\ UNCHANGED <<storage, lastUrlByTab, nextId, slots>> )
          ]_vars
    /\ [](\A h \in Slots : slots[h].pc # "idle" => ENABLED ItemContinue(h, ItemInputs))

\* An unknown command has been answered with an error while a session with
\* captured items exists.
C17_Witness ==
    /\ response.op \in UnknownTypes
    /\ IsError(response)
    /\ hdb_session_active
    /\ hdb_captured_items # <<>>

\* C18: when a frame-range capture completes, the playback position is the
\* one the video had when the capture began and the video is playing exactly
\* if it was playing then, whatever seeks timed out and whatever drawings
\* failed; a capture on a page without a video changes nothing.
Begins(c) == caps[c].pc = "idle" /\ caps'[c].pc = "seeking"
Returns(c) == caps[c].pc = "seeking" /\ caps'[c].pc = "idle"

C18_PlaybackRestored ==
    [][\A c \in Captures :
          /\ Begins(c) => ( /\ caps'[c].origTime = video.currentTime
                            /\ caps'[c].wasPaused = video.paused )
          /\ ( caps[c].pc = "seeking" /\ caps'[c].pc = "seeking" )
             => ( /\ caps'[c].origTime = caps[c].origTime
                  /\ caps'[c].wasPaused = caps[c].wasPaused )
          /\ Returns(c) => ( /\ frameResponse'.done
                             /\ video'.currentTime = caps[c].origTime
                             /\ video'.paused = caps[c].wasPaused )
          /\ ( frameResponse'.done /\ ~video.present ) => UNCHANGED video
      ]_vars

\* A capture with a timed-out seek and a failed drawing has returned; the
\* video, which was playing at 0:01, is playing at 0:01 again, a position
\* that is none of the sampled instants' last.
C18_Witness ==
    /\ frameResponse.done
    /\ \E k \in 1..Len(frameResponse.attempts) : frameResponse.attempts[k] = "timeout"
    /\ \E k \in 1..Len(frameResponse.attempts) : frameResponse.attempts[k] = "error"
    /\ Len(frameResponse.attempts) = 6
    /\ video.currentTime = 100
    /\ ~video.paused

\* C19: a drawn frame is kept exactly if no frame has been kept before it
\* or its fingerprint is not similar to that of the most recently kept
\* frame; an instant that gave no frame and a discarded frame change
\* neither the kept frames nor what the next frame is compared with.
FramesAfter(c) ==
    IF caps'[c].pc = "idle" THEN frameResponse'.frames ELSE caps'[c].frames
AttemptsAfter(c) ==
    IF caps'[c].pc = "idle" THEN frameResponse'.attempts ELSE caps'[c].attempts
LastAttempt(c) == AttemptsAfter(c)[Len(AttemptsAfter(c))]
SimilarToLastKept(frames, img) ==
    /\ frames # <<>>
    /\ hashesAreSimilar(<<getFrameHash(Pixels(frames[Len(frames)].dataUrl))>>,
                        <<getFrameHash(Pixels(img))>>)

C19_KeptIffNotSimilarToLastKept ==
    [][\A c \in Captures :
          ( caps[c].pc = "seeking" /\ caps'[c] # caps[c] )
          => /\ AttemptsAfter(c) = Append(caps[c].attempts, LastAttempt(c))
             /\ IF /\ LastAttempt(c) \in Images
                    /\ ~SimilarToLastKept(caps[c].frames, LastAttempt(c))
                THEN FramesAfter(c) =
                        Append(caps[c].frames,
                               [time |-> caps[c].stamps[caps[c].i],
                                timecode |-> secondsToTimecode(
                                                caps[c].stamps[caps[c].i]),
                                dataUrl |-> LastAttempt(c)])
                ELSE FramesAfter(c) = caps[c].frames
      ]_vars

\* Picture A was kept, picture C, similar to A, was discarded, and picture
\* B, similar to C but not to A, was kept.
C19_Witness ==
    /\ frameResponse.done
    /\ frameResponse.attempts = <<"A", "C", "B">>
    /\ Len(frameResponse.frames) = 2
    /\ frameResponse.frames[1].dataUrl = "A"
    /\ frameResponse.frames[2].dataUrl = "B"

\* C20: a timed-out seek or a failed drawing never ends the capture: the
\* next instant is attempted, and every instant has been attempted when the
\* capture returns; the frames returned are no more than the instants that
\* were drawn (at most 4 for 6 instants of which 2 timed out) and are in
\* strictly ascending order of time.
Drawn(attempts) == {k \in 1..Len(attempts) : attempts[k] \in Images}

C20_FailuresDoNotAbort ==
    [][\A c \in Captures :
          /\ ( /\ caps[c].pc = "seeking" /\ caps'[c] # caps[c]
               /\ caps[c].i < Len(caps[c].stamps) )
             => ( /\ caps'[c].pc = "seeking"
                  /\ caps'[c].i = caps[c].i + 1
                  /\ caps'[c].stamps = caps[c].stamps )
          /\ Returns(c)
             => ( /\ Len(frameResponse'.attempts) = Len(caps[c].stamps)
                  /\ Len(frameResponse'.frames)
                        <= Cardinality(Drawn(frameResponse'.attempts))
                  /\ \A k \in 1..(Len(frameResponse'.frames) - 1) :
                        frameResponse'.frames[k].time
                            < frameResponse'.frames[k + 1].time )
      ]_vars

\* Six instants were attempted, two seeks timed out, and the four drawn
\* frames were all kept.
C20_Witness ==
    /\ frameResponse.done
    /\ Len(frameResponse.attempts) = 6
    /\ Cardinality({k \in 1..6 : frameResponse.attempts[k] = "timeout"}) = 2
    /\ Cardinality(Drawn(frameResponse.attempts)) = 4
    /\ Len(frameResponse.frames) = 4

\* ---------------------------------------------------------------------
\* The pure functions (PureSpec)
\* ---------------------------------------------------------------------
IsSample == call.fn = "computeFrameTimestamps"
SampleLength == call.args[2] - call.args[1]
Gap(i) == call.result[i + 1] - call.result[i]
RoundedToTenth(t) == 10 * ((t + 5) \div 10)
ComputedBelowOne == Less(duration(call.args[1], call.args[2]), One)

\* C21 as stated: the number of sample instants is at most 16 (15 targeted
\* samples and the end instant) for every range, ranges longer than 450
\* seconds included.
C21_CountBoundedForEveryRange == IsSample => Len(call.result) <= 16

\* C21: the number of sample instants is at most 16 for every range of up
\* to 450 seconds; for a longer range the interval stays at 30 seconds and
\* the number grows with the range, to at most one per 30 seconds plus two.
C21_CountBoundedUpTo450Seconds ==
    IsSample =>
        Len(call.result) <= IF SampleLength <= 45000 THEN 16
                            ELSE SampleLength \div 3000 + 2

C21_Witness == IsSample /\ SampleLength > 45000 /\ Len(call.result) = 17

\* C22 as stated: for a range with 0 < end - start < 1 the result is start
\* followed by end, as in sampleInstants(10, 10.5) = [10, 10.5].
C22_ShortRangeIncludesEnd ==
    IsSample /\ 0 < SampleLength /\ SampleLength < 100 =>
        call.result = <<call.args[1], call.args[2]>>

\* C22: for a range with end - start < 1 the result is the single instant
\* start, and the end instant is not in it: sampleInstants(10, 10.5) is
\* [10].
C22_ShortRangeIsStartOnly ==
    IsSample /\ SampleLength < 100 => call.result = <<call.args[1]>>

C22_Witness == IsSample /\ call.args = <<1000, 1050>> /\ call.result = <<1000>>

\* C23 as stated: for end - start >= 1 the result is strictly ascending,
\* its first element is start and its last element is end;
\* sampleInstants(0, 300) is 0, 20, ..., 280, 300.
C23_AscendingFromStartToEnd ==
    IsSample /\ SampleLength >= 100 =>
        /\ \A i \in 1..(Len(call.result) - 1) : Gap(i) > 0
        /\ call.result[1] = call.args[1]
        /\ call.result[Len(call.result)] = call.args[2]
        /\ call.args = <<0, 30000>> =>
               call.result = [k \in 1..16 |-> 2000 * (k - 1)]

\* C23: for end - start >= 1 the result is strictly ascending (so it has
\* no duplicates), its first element is start rounded to one decimal place
\* and its last element is exactly end; sampleInstants(0, 300) is 0, 20,
\* ..., 280, 300.  The difference is the one computed in floating point:
\* it is below 1 for some ranges of exactly 1 second, as (0.4, 1.4), and
\* for no longer range, and the result is then the single instant start.
C23_AscendingFromRoundedStartToEnd ==
    IsSample /\ SampleLength >= 100 =>
        IF ComputedBelowOne
        THEN SampleLength = 100 /\ call.result = <<call.args[1]>>
        ELSE /\ \A i \in 1..(Len(call.result) - 1) : Gap(i) > 0
             /\ call.result[1] = RoundedToTenth(call.args[1])
             /\ call.result[Len(call.result)] = call.args[2]
             /\ call.args = <<0, 30000>> =>
                    call.result = [k \in 1..16 |-> 2000 * (k - 1)]

C23_Witness ==
    /\ IsSample /\ SampleLength >= 100 /\ ~ComputedBelowOne
    /\ call.args[1] = 124 /\ call.result[1] = 120
    /\ Len(call.result) >= 3

\* C24 as stated: for end - start >= 1 every two consecutive instants, the
\* last generated one and the appended end included, are at least 1 second
\* and at most 30 seconds apart.
C24_EveryGapFrom1To30Seconds ==
    IsSample /\ SampleLength >= 100 =>
        \A i \in 1..(Len(call.result) - 1) : Gap(i) >= 100 /\ Gap(i) <= 3000

\* C24: for end - start >= 1, as computed in floating point, every two
\* consecutive generated instants are at least 1 second and at most 30
\* seconds apart; the appended end is later than the last generated
\* instant, by less than 1 second for some ranges and by at most 30.15
\* seconds.
C24_GeneratedGapsFrom1To30Seconds ==
    IsSample /\ SampleLength >= 100 /\ ~ComputedBelowOne =>
        /\ Len(call.result) >= 2
        /\ \A i \in 1..(Len(call.result) - 2) : Gap(i) >= 100 /\ Gap(i) <= 3000
        /\ Gap(Len(call.result) - 1) > 0
        /\ Gap(Len(call.result) - 1) <= 3015

C24_Witness ==
    /\ IsSample /\ SampleLength >= 100 /\ ~ComputedBelowOne
    /\ Len(call.result) >= 3
    /\ Gap(Len(call.result) - 1) < 100

Differing(a, b) == Cardinality({k \in 1..Len(a) : Abs(a[k] - b[k]) > 15})

\* C25: hashesAreSimilar(h1, h2) is false when either hash is missing or
\* their lengths differ; otherwise it is true exactly when at most 2
\* positions differ by more than 15.  So a hash is similar to itself, the
\* result does not depend on the order of the arguments, and sixteen 0s
\* are not similar to sixteen 64s.
C25_SimilarIffAtMostTwoDiffer ==
    call.fn = "hashesAreSimilar" =>
        LET h1 == call.args[1]
            h2 == call.args[2]
            similar == call.result[1]
        IN  /\ IF h1 = <<>> \/ h2 = <<>> THEN ~similar
               ELSE IF Len(h1[1]) # Len(h2[1]) THEN ~similar
               ELSE similar <=> Differing(h1[1], h2[1]) <= 2
            /\ h1 = h2 /\ h1 # <<>> => similar
            /\ similar <=> hashesAreSimilar(h2, h1)
            /\ h1 = <<Sixteen(0)>> /\ h2 = <<Sixteen(64)>> => ~similar

C25_Witness ==
    /\ call.fn = "hashesAreSimilar"
    /\ call.args = << <<Sixteen(0)>>, <<Sixteen(64)>> >>
    /\ call.result = <<FALSE>>

\* C26: getFrameHash returns exactly 16 integers, each from 0 to 63,
\* whatever the channels of the sampled pixels; a point whose read fails
\* gives 0 and the other points are still sampled.
C26_SixteenValuesUpTo63 ==
    call.fn = "getFrameHash" =>
        /\ Len(call.result) = 16
        /\ \A k \in 1..16 :
               /\ call.result[k] \in 0..63
               /\ call.args[1][k] = <<>> => call.result[k] = 0

\* ---------------------------------------------------------------------
\* Markers and page-load events, handlers one at a time (SerialSpec)
\* ---------------------------------------------------------------------
IsMarker(e) == e.type \in {"pause", "resume"}
Markers(trail) == SelectSeq(trail, IsMarker)

\* C27: in every reachable trail the pause and resume markers alternate,
\* starting with a pause marker: no two pause markers without a resume
\* marker between them, and no resume marker without an unmatched pause
\* marker before it.
C27_MarkersAlternate ==
    \A k \in 1..Len(Markers(hdb_current_trail)) :
        Markers(hdb_current_trail)[k].type =
            IF k % 2 = 1 THEN "pause" ELSE "resume"

\* C28: a page-load event that is rejected changes neither the trail nor
\* the per-tab memory.  An event with an internal url starts no handler
\* (no slot changes); an event that arrives while the session is not active
\* or is paused ends at the flags check.
C28_RejectedEventChangesNothing ==
    [][/\ (\A h \in Slots : ~Steps(h))
          => UNCHANGED <<hdb_current_trail, lastUrlByTab>>
       /\ \A h \in Slots :
             ( /\ slots[h].pc = "nav_flags" /\ Steps(h)
               /\ (~hdb_session_active \/ hdb_session_paused) )
             => ( /\ slots'[h] = Idle
                  /\ UNCHANGED <<hdb_current_trail, lastUrlByTab>> )
      ]_vars

\* A page load in a tab with a remembered url, other than the one loaded,
\* is about to be rejected because the session is paused.
C28_Witness ==
    \E h \in Slots :
        /\ slots[h].pc = "nav_flags"
        /\ hdb_session_active /\ hdb_session_paused
        /\ Len(hdb_current_trail) > 1
        /\ lastUrlByTab[slots[h].tab] # Null
        /\ lastUrlByTab[slots[h].tab] # slots[h].url

Accepted(h) == slots[h].pc = "nav_flags" /\ slots'[h].pc = "nav_trail"

\* C29: the fromUrl of an appended Page entry is the url of the latest
\* accepted page load of the same tab since the memory was last reset, or
\* null.  An accepted event takes fromUrl from its own tab's memory and
\* then sets that tab's memory, and no other tab's, to its url; the memory
\* changes in no other way than by a reset; and the Page entry appended
\* carries the event's url and that fromUrl.
C29_FromUrlIsLastAcceptedOfSameTab ==
    [][/\ \A h \in Slots :
             Accepted(h)
             => ( /\ slots'[h].fromUrl = lastUrlByTab[slots[h].tab]
                  /\ lastUrlByTab' =
                         [lastUrlByTab EXCEPT ![slots[h].tab] = slots[h].url] )
       /\ lastUrlByTab' # lastUrlByTab
             => ( \/ \E h \in Slots : Accepted(h)
                  \/ lastUrlByTab' = EmptyTabMap )
       /\ ( /\ Len(hdb_current_trail') = Len(hdb_current_trail) + 1
            /\ IsPage(hdb_current_trail'[Len(hdb_current_trail')]) )
             => \E h \in Slots :
                    /\ slots[h].pc = "nav_trail"
                    /\ hdb_current_trail' =
                           Append(hdb_current_trail,
                                  PageEntry(slots[h].url, slots[h].fromUrl))
      ]_vars

\* Tab 1 loaded a, tab 2 loaded b, then tab 1 loaded a again: the third
\* entry is from a, not from b.
C29_Witness ==
    hdb_current_trail = <<PageEntry("https://a", Null),
                          PageEntry("https://b", Null),
                          PageEntry("https://a", "https://a")>>

\* C30: an accepted page load whose url is the url of the last trail entry
\* appends nothing, whichever tab it comes from and whatever that tab's
\* memory was, and the memory of its tab is its url afterwards.
C30_BackToBackIsGlobal ==
    [][\A h \in Slots :
          ( /\ slots[h].pc = "nav_trail" /\ Steps(h)
            /\ Len(hdb_current_trail) > 0
            /\ hdb_current_trail[Len(hdb_current_trail)].url = slots[h].url )
          => ( /\ hdb_current_trail' = hdb_current_trail
               /\ lastUrlByTab'[slots[h].tab] = slots[h].url )
      ]_vars

\* The page of the only trail entry was then loaded in the other tab too.
C30_Witness ==
    /\ hdb_current_trail = <<PageEntry("https://a", Null)>>
    /\ lastUrlByTab = [t \in Tabs |-> "https://a"]
    /\ AllIdle

\* ---------------------------------------------------------------------
\* Termination of a frame-range capture (FrameLiveSpec)
\* ---------------------------------------------------------------------
\* C31: every frame-range capture terminates, even when no seek ever
\* completes: each wait ends with the timeout, a capture over n instants
\* takes one step per instant, the last of which restores the video and
\* returns, and a capture that is running does return.
C31_CaptureTerminates ==
    /\ [][\A c \in Captures :
             ( caps[c].pc = "seeking" /\ caps'[c] # caps[c] )
             => ( /\ Len(AttemptsAfter(c)) = caps[c].i
                  /\ IF caps[c].i < Len(caps[c].stamps)
                     THEN caps'[c].pc = "seeking" /\ caps'[c].i = caps[c].i + 1
                     ELSE Returns(c) /\ frameResponse'.done )
        ]_vars
    /\ \A c \in Captures : (caps[c].pc = "seeking") ~> (caps[c].pc = "idle")

\* A capture over six instants has returned after six timeouts, with no
\* frame.
C31_Witness ==
    /\ frameResponse.done
    /\ frameResponse.attempts = [k \in 1..6 |-> "timeout"]
    /\ frameResponse.frames = <<>>
    /\ NoCaptureRuns

\* ---------------------------------------------------------------------
\* Handlers in flight together (Spec)
\* ---------------------------------------------------------------------
\* C32: in every reachable state, whatever the interleaving of handlers,
\* sessionPaused implies sessionActive: the stored state is never paused
\* without an active session.
C32_PausedImpliesActive == hdb_session_paused => hdb_session_active

\* C33: once EndSession, Logout or StartSession has written its clear, no
\* trail entry and no captured item from before the clear reappears: a
\* handler in flight that read the trail or the captured items before the
\* clear does not write its copy back.  While the clearing handler has not
\* returned and the stored list is still empty, a non-empty copy held by
\* the other handler was read before the clear.
ClearWritten ==
    \E c \in Slots : slots[c].pc \in {"start_set", "end_set", "logout_set"}
ItemIds(items) == {items[k].id : k \in 1..Len(items)}

C33_NothingReappearsAfterClear ==
    [][\A g \in Slots :
          ( ClearWritten /\ Steps(g) )
          => ( /\ ( hdb_current_trail = <<>> /\ slots[g].sTrail # <<>> )
                  => ~IsPrefix(slots[g].sTrail, hdb_current_trail')
               /\ hdb_captured_items = <<>>
                  => ItemIds(slots[g].sItems)
                         \cap ItemIds(hdb_captured_items') = {} )
      ]_vars

\* ---------------------------------------------------------------------
\* Item commands in flight together (CaptureRaceSpec, ItemRaceSpec)
\* ---------------------------------------------------------------------
\* C34: every item a capture command has returned stays in the stored
\* captured items until it is deleted or the list is cleared, whatever the
\* interleaving.  In CaptureRaceSpec nothing deletes an item or clears the
\* list, so every id handed out is the id of a stored item, or of the
\* item a capture command has written and not yet returned.
C34_CapturedItemsStay ==
    \A id \in 1..nextId :
        \/ id \in ItemIds(hdb_captured_items)
        \/ \E g \in Slots :
               /\ slots[g].pc = "capture_set"
               /\ slots[g].rec[1].id = id

\* C35: a captured item removed by a completed DeleteCaptured does not
\* reappear in the stored list.  No command of ItemRaceSpec clears the
\* list and DeleteCaptured is only sent for the first item, so when one id
\* has been handed out, the stored list is empty and no DeleteCaptured is
\* still to answer, the one item was removed by a completed
\* DeleteCaptured; the list then stays empty until a new item is captured.
C35_DeletedItemStaysDeleted ==
    [][( /\ nextId = 1 /\ hdb_captured_items = <<>> /\ nextId' = nextId
         /\ \A g \in Slots : slots[g].pc # "delete_set" )
          => hdb_captured_items' = <<>>
      ]_vars

\* ---------------------------------------------------------------------
\* Overlapping frame-range captures (FrameRaceSpec)
\* ---------------------------------------------------------------------
\* C36: when frame-range captures on the same video overlap, then after
\* all of them have completed the video is back at the position it had
\* before the first of them began.  The user moves the video only while
\* no capture runs and only up to MaxPlayed seconds, and every sampled
\* instant is later than that: whenever no capture runs, the video is at
\* a position the user left it at, not at a sampled instant or at a
\* position saved in the middle of another capture.
C36_RestoredAfterOverlap ==
    NoCaptureRuns => video.currentTime <= 100 * MaxPlayed

\* ---------------------------------------------------------------------
\* Commands one at a time (ItemSpec, SerialSpec)
\* ---------------------------------------------------------------------
\* C37: every command type the control panel sends is one the dispatcher
\* handles: no command it sends, GET_SESSIONS and START_BACK_UP included,
\* is answered with the unknown-command error.
C37_NoUnknownCommandError ==
    response.error # "Unknown message type: " \o response.op

\* C38: StartSession is accepted in every state and never fails, with or
\* without a logged-in user.  Its write empties the trail and the captured
\* items, it hands no session record to the remote store (the handler has
\* no step between its write and its answer), it leaves the logged-in user
\* as it was, and it answers ok.
C38_StartSessionAlwaysAccepted ==
    /\ [][/\ \A h \in Slots :
                /\ ( slots[h].op = "idle" /\ slots'[h].op = "START_SESSION" )
                   => ( /\ hdb_current_trail' = <<>>
                        /\ hdb_captured_items' = <<>>
                        /\ hdb_session_active' /\ ~hdb_session_paused'
                        /\ slots'[h].pc = "start_set"
                        /\ slots'[h].rec = <<>>
                        /\ UNCHANGED hdb_ext_session )
                /\ ( slots[h].op = "START_SESSION" /\ Steps(h) )
                   => ( /\ slots'[h].pc = "idle"
                        /\ response'.op = "START_SESSION"
                        /\ UNCHANGED storage )
          /\ response'.op = "START_SESSION" => IsResult(response') /\ response'.ok
         ]_vars
    /\ [](AllIdle => \A h \in Slots : Free(h) => ENABLED StartStart(h, ""))

\* StartSession has been issued by a logged-in user in a session that had
\* recorded a page load and held a captured id: the trail and the captured
\* items are empty, the navigation memory is not yet reset.
C38_Witness ==
    \E h \in Slots :
        /\ slots[h].op = "START_SESSION" /\ slots[h].pc = "start_set"
        /\ hdb_ext_session # Null
        /\ lastUrlByTab[1] # Null
        /\ nextId > 0
        /\ hdb_current_trail = <<>>
        /\ hdb_captured_items = <<>>

\* ---------------------------------------------------------------------
\* Captures across the session lifecycle (LifeSpec)
\* ---------------------------------------------------------------------
CaptureOps == {"CAPTURE_TEXT", "CAPTURE_URL"}
CapturedType(h) ==
    IF slots[h].op = "CAPTURE_URL" THEN "url"
    ELSE IF slots[h].timecode # Null THEN "video" ELSE "text"

\* C39: CaptureText and CaptureUrl succeed in every state of the session
\* lifecycle, with or without a logged-in user: the command answers ok with
\* an item that has saved = false and the type 'url' for CaptureUrl,
\* 'video' for CaptureText with a start timecode and 'text' without one;
\* the stored list is the old one with that item at its end; the session
\* flags, the session name, the user, the trail and the navigation memory
\* are unchanged.
C39_CaptureInEveryState ==
    [][\A h \in Slots :
          /\ ( slots[h].op = "idle" /\ slots'[h].op \in CaptureOps )
             => ( /\ slots'[h].pc = "capture_read"
                  /\ UNCHANGED <<storage, lastUrlByTab>> )
          /\ ( slots[h].op \in CaptureOps /\ slots[h].pc = "capture_read"
               /\ Steps(h) )
             => ( /\ slots'[h].pc = "capture_set"
                  /\ Len(slots'[h].rec) = 1
                  /\ hdb_captured_items' =
                         Append(hdb_captured_items, slots'[h].rec[1])
                  /\ slots'[h].rec[1].saved = FALSE
                  /\ slots'[h].rec[1].type = CapturedType(h)
                  /\ UNCHANGED <<hdb_ext_session, session_keys,
                                 hdb_current_trail, lastUrlByTab>> )
          /\ ( slots[h].op \in CaptureOps /\ slots[h].pc = "capture_set"
               /\ Steps(h) )
             => ( /\ slots'[h].pc = "idle"
                  /\ response'.op = slots[h].op
                  /\ response'.ok
                  /\ response'.item = slots[h].rec
                  /\ UNCHANGED <<storage, lastUrlByTab>> )
          /\ ( response'.op \in CaptureOps ) => response'.ok
      ]_vars

\* In a Paused session with a recorded page load and no logged-in user, a
\* CaptureText without a timecode has added a 'text' item after a 'video'
\* item.
C39_Witness ==
    /\ response.op = "CAPTURE_TEXT" /\ response.ok
    /\ hdb_session_active /\ hdb_session_paused
    /\ hdb_ext_session = Null
    /\ lastUrlByTab[1] # Null
    /\ Len(hdb_current_trail) = 2
    /\ Len(hdb_captured_items) = 2
    /\ hdb_captured_items[1].type = "video"
    /\ hdb_captured_items[2].type = "text"
    /\ response.item = <<hdb_captured_items[2]>>

\* C40: ResumeSession never fails and does not look at the state: in every
\* state it appends a ResumeMarker to the trail, sets sessionPaused to
\* false, leaves sessionActive as it was, resets the navigation memory and
\* answers ok.
C40_ResumeSessionUnchecked ==
    [][/\ \A h \in Slots :
             /\ ( slots[h].pc = "resume_read" /\ Steps(h) )
                => ( /\ hdb_current_trail' =
                            Append(hdb_current_trail, resumeMarker)
                     /\ ~hdb_session_paused'
                     /\ UNCHANGED <<hdb_session_active, hdb_session_name,
                                    hdb_ext_session, hdb_captured_items>>
                     /\ slots'[h].pc = "resume_set" )
             /\ ( slots[h].pc = "resume_set" /\ Steps(h) )
                => ( /\ slots'[h].pc = "idle"
                     /\ response' = Ok("RESUME_SESSION")
                     /\ lastUrlByTab' = EmptyTabMap
                     /\ UNCHANGED storage )
       /\ response'.op = "RESUME_SESSION" => response'.ok
      ]_vars

\* ResumeSession has completed where no session exists: the trail holds a
\* ResumeMarker and sessionActive is false.
C40_Witness ==
    /\ response = Ok("RESUME_SESSION")
    /\ ~hdb_session_active /\ ~hdb_session_paused
    /\ hdb_session_name = ""
    /\ hdb_current_trail = <<resumeMarker>>
====
